---- MODULE Spec2Model ----
(***************************************************************************)
(* A model of the in-memory persister (MemoryPersister.ts) and of the      *)
(* PostgreSQL select query builder (PgSelectQueryBuilder).                 *)
(*                                                                         *)
(* JavaScript values are tagged pairs, so that strict equality (===) is    *)
(* plain equality of the pairs and "1" never equals 1:                     *)
(*   <<"str", s>>  a string         <<"num", n>>  a number                 *)
(*   <<"obj", e>>  an entity object <<"list", q>> an array of entities     *)
(*   <<"absent", 0>>  the property is not there (has() is false)           *)
(* An entity object is a record of its properties (Props) and of self,     *)
(* which is not a property: it holds the identity of the object, which is  *)
(* what tells a clone from the object it was cloned from.                  *)
(***************************************************************************)
EXTENDS Integers, Sequences, FiniteSets, TLC

VARIABLES
    ID_SEQUENCER,   \* the module-level counter, shared by every persister
    data,           \* data[p]: the _data of persister p, table name -> MemoryTable
    registered,     \* registered[p]: the metadata manager of p, table name -> metadata
    scope,          \* the name of what the callers of this behaviour use (set by Init)
    assigned,       \* history: every id taken from ID_SEQUENCER so far
    last,           \* the most recent call: operation, arguments, outcome
    inflight,       \* inflight[c]: the call of caller c whose promise it has not awaited yet
    populating,     \* a relation population followed call by call: the calls to begin
    qb,             \* the select query builder
    subs,           \* the predicate / sub-select builders the callers hold
    qlast           \* the most recent query builder call and its outcome

vars ==
    <<ID_SEQUENCER, data, registered, scope, assigned, last, inflight, populating,
      qb, subs, qlast>>

pvars == <<ID_SEQUENCER, data, registered, scope, assigned, last, inflight, populating>>

qvars == <<qb, subs, qlast>>

-----------------------------------------------------------------------------
(* Bounds of the model *)

\* ID_SEQUENCER stops being incremented by the callers of the model here
MaxSeq == 3

\* the callers stop adding rows to a table that holds this many
MaxRows == 2

\* the longest batch a caller passes to insert
MaxBatch == 2

\* the objects a caller changes between two calls
MaxTouch == 1

\* the rows of the table of the callers that watch the order of the rows
MaxOrderRows == 3

\* the calls of the population helpers that are followed within one population
MaxPopulateCalls == 6

-----------------------------------------------------------------------------
(* Values *)

Str(s) == <<"str", s>>

Num(n) == <<"num", n>>

Obj(e) == <<"obj", e>>

List(q) == <<"list", q>>

Absent == <<"absent", 0>>

Undefined == <<"undefined", 0>>

EmptyString == Str("")

\* JavaScript truthiness of a value: !!v
Truthy(v) == v \notin {Absent, Undefined, EmptyString, Num(0)}

\* a === b; two objects are never the same object across a call boundary
StrictEq(a, b) == a[1] \in {"str", "num"} /\ a = b

\* `${n}` for the numbers the counter produces
TemplateString(n) == Str(ToString(n))

Props == {"id", "name", "parent", "children"}

\* a function with a finite domain, evaluated once and for all
Array(f) == IF f = <<>> THEN <<>> ELSE f

\* has(entity, property)
has(e, p) == p \in Props /\ e[p] # Absent

(* Object identities (the field self) *)

\* a stored object, at rest
Anon == <<"anon">>

\* an object created during the current call
New == <<"new">>

\* the caller's i-th argument (path <<>>) or an object nested in it
ArgTag(i, path) == <<"arg", "", i, path>>

\* the object stored in table t at index i (path <<>>) or nested in it
At(t, i, path) == <<"at", t, i, path>>

\* an object the caller holds that is no stored object
Own == <<"own">>

MkTag(base, path) == IF Len(base) = 1 THEN base ELSE <<base[1], base[2], base[3], path>>

RECURSIVE Retag(_, _, _)
RECURSIVE RetagValue(_, _, _)

\* entity e with the identity of every object in it set from base
Retag(e, base, path) ==
    [id |-> RetagValue(e.id, base, path \o <<"id">>),
     name |-> RetagValue(e.name, base, path \o <<"name">>),
     parent |-> RetagValue(e.parent, base, path \o <<"parent">>),
     children |-> RetagValue(e.children, base, path \o <<"children">>),
     self |-> MkTag(base, path)]

RetagValue(v, base, path) ==
    IF v[1] = "obj" THEN Obj(Retag(v[2], base, path))
    ELSE IF v[1] = "list"
         THEN List(Array([k \in DOMAIN v[2] |->
                            Retag(v[2][k], base, path \o <<ToString(k)>>)]))
         ELSE v

\* entity.clone(): a deep copy, every object of it a new object
Clone(e) == Retag(e, New, <<>>)

\* the properties of e, identities forgotten
Strip(e) == Retag(e, Anon, <<>>)

\* the object stored at index i of table t, as the code reads it
Locate(e, t, i) == Retag(e, <<"at", t, i>>, <<>>)

\* an entity as a caller builds it
MkEntity(id, name, parent) ==
    [id |-> id, name |-> name, parent |-> parent, children |-> Absent, self |-> Anon]

\* the object a caller embeds to refer to a related row: { id }
Placeholder(id) == Obj(MkEntity(id, Absent, Absent))

-----------------------------------------------------------------------------
(* Results of a call: a returned value or a raised error *)

Ok(v) == <<"ok", v>>

Err(msg) == <<"err", msg>>

IsOk(r) == r[1] = "ok"

IsErr(r) == r[1] = "err"

Bool(b) == <<"bool", b>>

Void == <<"void", 0>>

-----------------------------------------------------------------------------
(* Entity metadata *)

Field(propertyName, columnName) == [propertyName |-> propertyName, columnName |-> columnName]

ParentFields == <<Field("id", "parent_id"), Field("name", "parent_name")>>

ChildFields == <<Field("id", "child_id"), Field("name", "child_name"), Field("parent", "parent_id")>>

\* Parent { id, name, children: one-to-many Child.parent }
ParentMeta ==
    [tableName |-> "parents", idPropertyName |-> "id", fields |-> ParentFields,
     oneToManyRelations |-> <<[propertyName |-> "children", mappedBy |-> "parent",
                               mappedTable |-> "children"]>>,
     manyToOneRelations |-> <<>>]

\* Child { id, name, parent: many-to-one Parent }
ChildMeta ==
    [tableName |-> "children", idPropertyName |-> "id", fields |-> ChildFields,
     oneToManyRelations |-> <<>>,
     manyToOneRelations |-> <<[propertyName |-> "parent", mappedTable |-> "parents"]>>]

\* Child declared without the join column of its relation to Parent
ChildMetaNoJoin == [ChildMeta EXCEPT !.fields = SubSeq(ChildFields, 1, 2)]

\* Child whose parent is a Child: the relation joins on the id column of its own table
ChildSelfMeta ==
    [ChildMeta EXCEPT
        !.fields = <<Field("id", "child_id"), Field("name", "child_name"),
                     Field("parent", "child_id")>>,
        !.manyToOneRelations = <<[propertyName |-> "parent", mappedTable |-> "children"]>>]

\* Parent and Child declared without relations
ParentPlainMeta == [ParentMeta EXCEPT !.oneToManyRelations = <<>>]

ChildPlainMeta == [ChildMeta EXCEPT !.manyToOneRelations = <<>>]

Metadatas ==
    {ParentMeta, ChildMeta, ChildMetaNoJoin, ChildSelfMeta, ParentPlainMeta, ChildPlainMeta}

Tables == {m.tableName : m \in Metadatas}

HasRelations(m) == Len(m.oneToManyRelations) + Len(m.manyToOneRelations) > 0

\* find(fields, f => f.propertyName === name): index of the first such field, 0 if none
FindFieldByProperty(fields, name) ==
    LET hits == {k \in 1..Len(fields) : fields[k].propertyName = name}
    IN IF hits = {} THEN 0 ELSE CHOOSE k \in hits : \A j \in hits : k <= j

\* EntityUtils.getPropertyName(columnName, fields): the property of the first field
\* with that column
getPropertyName(columnName, fields) ==
    LET hits == {k \in 1..Len(fields) : fields[k].columnName = columnName}
    IN IF hits = {} THEN Err("getPropertyName: column not found")
       ELSE Ok(fields[CHOOSE k \in hits : \A j \in hits : k <= j].propertyName)

\* PersisterMetadataManager.setupEntityMetadata: last write for a table name wins
setupMetadata(reg, metadata) ==
    Array([t \in DOMAIN reg \cup {metadata.tableName} |->
            IF t = metadata.tableName THEN metadata ELSE reg[t]])

\* PersisterMetadataManager.getMetadataByTable finds a record for the table
isRegistered(reg, tableName) == tableName \in DOMAIN reg

\* PersisterMetadataManager.getMetadataByTable, where it finds a record
getMetadataByTable(reg, tableName) == reg[tableName]


-----------------------------------------------------------------------------
(* MemoryPersister: tables and items.  d is the _data of one persister: a  *)
(* function from the names of the tables that exist to [items |-> ...].    *)

\* an item that is not filed under the id it was created for
createMemoryItemUnkeyed(id, value) == [id |-> Undefined, value |-> value]

createMemoryItem(id, value) == [id |-> id, value |-> value]

createMemoryTable == [items |-> <<>>]

\* has(this._data, tableName)
hasTable(d, tableName) == tableName \in DOMAIN d

\* this._data[tableName] = table
setTable(d, tableName, table) ==
    Array([t \in DOMAIN d \cup {tableName} |-> IF t = tableName THEN table ELSE d[t]])

\* delete this._data[tableName]
deleteTable(d, tableName) == Array([t \in DOMAIN d \ {tableName} |-> d[t]])

\* this._data[tableName].items, each value the stored object itself
tableItems(d, tableName) ==
    Array([i \in 1..Len(d[tableName].items) |->
            createMemoryItem(d[tableName].items[i].id,
                             Locate(d[tableName].items[i].value, tableName, i))])

\* the property test used by the *ByProperty scans
propertyIs(item, property, value) ==
    IF has(item.value, property) THEN StrictEq(item.value[property], value) ELSE FALSE

\* the callback of _populateOneToManyRelations: does relatedItem point at entityId
isLinkedTo(relatedItem, mappedBy, joinPropertyName, entityId) ==
    LET relatedEntity == relatedItem.value
        relatedEntityProperty ==
            IF has(relatedEntity, mappedBy) THEN relatedEntity[mappedBy] ELSE Undefined
        innerId ==
            IF relatedEntityProperty[1] = "obj" /\ has(relatedEntityProperty[2], joinPropertyName)
            THEN relatedEntityProperty[2][joinPropertyName]
            ELSE Undefined
    IN IF Truthy(relatedEntityProperty)
       THEN Truthy(innerId) /\ StrictEq(innerId, entityId)
       ELSE FALSE

\* the callbacks the operations hand to _findItem and _filterItems
idIs(id) == [test |-> "idIs", id |-> id]
idIsOneOf(ids) == [test |-> "idIsOneOf", ids |-> ids]
propertyEquals(property, value) == [test |-> "propertyEquals", property |-> property, value |-> value]
linkedTo(mappedBy, joinPropertyName, entityId) ==
    [test |-> "linkedTo", mappedBy |-> mappedBy, joinPropertyName |-> joinPropertyName,
     entityId |-> entityId]

\* callback(item)
callback(c, item) ==
    CASE c.test = "idIs" -> StrictEq(item.id, c.id)
      [] c.test = "idIsOneOf" -> \E id \in c.ids : StrictEq(id, item.id)
      [] c.test = "propertyEquals" -> propertyIs(item, c.property, c.value)
      [] c.test = "linkedTo" -> isLinkedTo(item, c.mappedBy, c.joinPropertyName, c.entityId)

\* find(list, callback): the first match, or none
findFirst(list, c) ==
    LET hits == {i \in 1..Len(list) : callback(c, list[i])}
    IN IF hits = {} THEN <<>> ELSE <<list[CHOOSE i \in hits : \A j \in hits : i <= j]>>

\* _findItem(callback, tableName): <<item>> or <<>> (undefined)
findItem(d, c, tableName) ==
    IF ~hasTable(d, tableName) THEN <<>>
    ELSE findFirst(tableItems(d, tableName), c)

\* _filterItems(callback, tableName)
filterItems(d, c, tableName) ==
    IF ~hasTable(d, tableName) THEN <<>>
    ELSE SelectSeq(tableItems(d, tableName), LAMBDA item : callback(c, item))

\* a copy that carries the id of the stored value and none of its other properties
prepareItemIdOnly(item, metadata) == Clone(MkEntity(item.value.id, Absent, Absent))

\* _prepareItem(item, metadata)
prepareItem(item, metadata) == Clone(item.value)

\* _prepareItemList(items, metadata)
prepareItemList(list, metadata) ==
    Array([i \in 1..Len(list) |-> prepareItem(list[i], metadata)])

-----------------------------------------------------------------------------
(* Relation population.  Each operator returns Ok(Obj(entity)) or the      *)
(* error the code raises.                                                  *)

\* one round of the forEach of _populateOneToManyRelations, for relation oneToMany
populateOneToMany(d, reg, entity, metadata, oneToMany) ==
    LET propertyName == oneToMany.propertyName
        mappedBy == oneToMany.mappedBy
        mappedTable == oneToMany.mappedTable
        idPropertyName == metadata.idPropertyName
        entityId == IF has(entity, idPropertyName) THEN entity[idPropertyName] ELSE Undefined
    IN IF ~(mappedTable # "" /\ mappedBy # "")
       THEN Err("No link to table exists to populate property")
       ELSE IF ~isRegistered(reg, mappedTable)
       THEN Err("Could not find metadata for linked table")
       ELSE LET mappedToMetadata == getMetadataByTable(reg, mappedTable)
                joinColumn == FindFieldByProperty(mappedToMetadata.fields, mappedBy)
            IN IF joinColumn = 0 THEN Ok(Obj(entity))
               ELSE LET joinColumnName == mappedToMetadata.fields[joinColumn].columnName
                        joinPropertyName == getPropertyName(joinColumnName, metadata.fields)
                    IN IF IsErr(joinPropertyName) THEN joinPropertyName
                       ELSE LET linkedEntities ==
                                    filterItems(d, linkedTo(mappedBy, joinPropertyName[2], entityId),
                                                mappedTable)
                            IN Ok(Obj([entity EXCEPT ![propertyName] =
                                    List(prepareItemList(linkedEntities, mappedToMetadata))]))

RECURSIVE forEachOneToMany(_, _, _, _, _)
\* forEach(oneToManyRelations, ...) from relation k on; r is the entity so far
forEachOneToMany(d, reg, r, metadata, k) ==
    IF IsErr(r) \/ k > Len(metadata.oneToManyRelations) THEN r
    ELSE forEachOneToMany(d, reg,
            populateOneToMany(d, reg, r[2][2], metadata, metadata.oneToManyRelations[k]),
            metadata, k + 1)

\* _populateOneToManyRelations(entity, metadata)
populateOneToManyRelations(d, reg, entity, metadata) ==
    forEachOneToMany(d, reg, Ok(Obj(Clone(entity))), metadata, 1)

\* one round of the forEach of _populateManyToOneRelations, for relation manyToOne
populateManyToOne(d, reg, entity, metadata, manyToOne) ==
    LET propertyName == manyToOne.propertyName
        mappedTable == manyToOne.mappedTable
        joinColumn == FindFieldByProperty(metadata.fields, propertyName)
    IN IF joinColumn = 0 THEN Ok(Obj(entity))
       ELSE IF mappedTable = ""
       THEN Err("No link to table exists to populate property")
       ELSE IF ~isRegistered(reg, mappedTable)
       THEN Err("Could not find metadata for linked table")
       ELSE LET joinColumnName == metadata.fields[joinColumn].columnName
                mappedToMetadata == getMetadataByTable(reg, mappedTable)
                relatedEntity == entity[propertyName]
            IN IF ~Truthy(relatedEntity)
               THEN Err("Could not find related entity by property")
               ELSE LET joinPropertyName ==
                            getPropertyName(joinColumnName, mappedToMetadata.fields)
                    IN IF IsErr(joinPropertyName) THEN joinPropertyName
                       ELSE LET relatedId ==
                                    IF relatedEntity[1] = "obj"
                                       /\ has(relatedEntity[2], joinPropertyName[2])
                                    THEN relatedEntity[2][joinPropertyName[2]]
                                    ELSE Undefined
                                relatedTableName == mappedToMetadata.tableName
                                storedRelatedItem ==
                                    findItem(d, idIs(relatedId),
                                             relatedTableName)
                            IN IF ~Truthy(relatedId)
                               THEN Err("Could not find related entity id by property")
                               ELSE IF storedRelatedItem = <<>>
                               THEN Err("Could not find related entity by id")
                               ELSE LET related ==
                                            populateOneToManyRelations(d, reg,
                                                prepareItem(storedRelatedItem[1], mappedToMetadata),
                                                mappedToMetadata)
                                    IN IF IsErr(related) THEN related
                                       ELSE Ok(Obj([entity EXCEPT ![propertyName] = related[2]]))

RECURSIVE forEachManyToOne(_, _, _, _, _)
\* forEach(manyToOneRelations, ...) from relation k on; r is the entity so far
forEachManyToOne(d, reg, r, metadata, k) ==
    IF IsErr(r) \/ k > Len(metadata.manyToOneRelations) THEN r
    ELSE forEachManyToOne(d, reg,
            populateManyToOne(d, reg, r[2][2], metadata, metadata.manyToOneRelations[k]),
            metadata, k + 1)

\* _populateManyToOneRelations(entity, metadata)
populateManyToOneRelations(d, reg, entity, metadata) ==
    forEachManyToOne(d, reg, Ok(Obj(Clone(entity))), metadata, 1)

\* _populateRelations(entity, metadata)
populateRelations(d, reg, entity, metadata) ==
    LET r == populateOneToManyRelations(d, reg, entity, metadata)
    IN IF IsErr(r) THEN r ELSE populateManyToOneRelations(d, reg, r[2][2], metadata)

RECURSIVE mapPopulate(_, _, _, _, _)
\* map(list, item => _populateRelations(item, metadata)) from index k on; acc so far
mapPopulate(d, reg, list, metadata, acc) ==
    IF Len(acc) = Len(list) THEN Ok(List(acc))
    ELSE LET r == populateRelations(d, reg, list[Len(acc) + 1], metadata)
         IN IF IsErr(r) THEN r
            ELSE mapPopulate(d, reg, list, metadata, Append(acc, r[2][2]))

\* _populateRelationsToList(list, metadata)
populateRelationsToList(d, reg, list, metadata) == mapPopulate(d, reg, list, metadata, <<>>)

-----------------------------------------------------------------------------
(* Relation population call by call: which calls of the population        *)
(* helpers a call of a population helper makes.                            *)

\* a call of helper kind for entity under metadata
PopulateCall(kind, entity, metadata) ==
    [kind |-> kind, entity |-> Strip(entity), metadata |-> metadata]

\* the call a many-to-one round would make if it populated the related entity in full
relatedCallInFull(item, mappedToMetadata) ==
    PopulateCall("populateRelations", prepareItem(item, mappedToMetadata), mappedToMetadata)

\* the call a many-to-one round makes for the related item it found:
\* this._populateOneToManyRelations(this._prepareItem(storedRelatedItem, ...), ...)
relatedCall(item, mappedToMetadata) ==
    PopulateCall("populateOneToManyRelations", prepareItem(item, mappedToMetadata),
                 mappedToMetadata)

\* the calls the round of relation manyToOne makes: the one for the related item when
\* the round gets as far as finding it
callsOfManyToOne(d, reg, entity, metadata, manyToOne) ==
    LET propertyName == manyToOne.propertyName
        mappedTable == manyToOne.mappedTable
        joinColumn == FindFieldByProperty(metadata.fields, propertyName)
    IN IF joinColumn = 0 \/ mappedTable = "" \/ ~isRegistered(reg, mappedTable) THEN <<>>
       ELSE LET joinColumnName == metadata.fields[joinColumn].columnName
                mappedToMetadata == getMetadataByTable(reg, mappedTable)
                relatedEntity == entity[propertyName]
                joinPropertyName == getPropertyName(joinColumnName, mappedToMetadata.fields)
            IN IF ~Truthy(relatedEntity) \/ IsErr(joinPropertyName) THEN <<>>
               ELSE LET relatedId ==
                            IF relatedEntity[1] = "obj"
                               /\ has(relatedEntity[2], joinPropertyName[2])
                            THEN relatedEntity[2][joinPropertyName[2]]
                            ELSE Undefined
                        storedRelatedItem ==
                            findItem(d, idIs(relatedId), mappedToMetadata.tableName)
                    IN IF ~Truthy(relatedId) \/ storedRelatedItem = <<>> THEN <<>>
                       ELSE <<relatedCall(storedRelatedItem[1], mappedToMetadata)>>

RECURSIVE callsOfManyToOneRelations(_, _, _, _, _)
\* the calls the rounds of _populateManyToOneRelations make from relation k on, up to
\* the round that raises
callsOfManyToOneRelations(d, reg, entity, metadata, k) ==
    IF k > Len(metadata.manyToOneRelations) THEN <<>>
    ELSE LET round == populateManyToOne(d, reg, entity, metadata,
                                        metadata.manyToOneRelations[k])
         IN callsOfManyToOne(d, reg, entity, metadata, metadata.manyToOneRelations[k])
            \o (IF IsErr(round) THEN <<>>
                ELSE callsOfManyToOneRelations(d, reg, round[2][2], metadata, k + 1))

\* what call c returns or raises
outcomeOf(d, reg, c) ==
    CASE c.kind = "populateRelations" -> populateRelations(d, reg, c.entity, c.metadata)
      [] c.kind = "populateOneToManyRelations" ->
            populateOneToManyRelations(d, reg, c.entity, c.metadata)
      [] c.kind = "populateManyToOneRelations" ->
            populateManyToOneRelations(d, reg, c.entity, c.metadata)

\* the calls of population helpers that call c makes itself, in order
callsOf(d, reg, c) ==
    CASE c.kind = "populateRelations" ->
            LET r == populateOneToManyRelations(d, reg, c.entity, c.metadata)
            IN <<PopulateCall("populateOneToManyRelations", c.entity, c.metadata)>>
               \o (IF IsErr(r) THEN <<>>
                   ELSE <<PopulateCall("populateManyToOneRelations", r[2][2], c.metadata)>>)
      [] c.kind = "populateOneToManyRelations" -> <<>>
      [] c.kind = "populateManyToOneRelations" ->
            callsOfManyToOneRelations(d, reg, c.entity, c.metadata, 1)


-----------------------------------------------------------------------------
(* MemoryPersister: the read operations.  Each returns Ok(value) or the    *)
(* error raised.  ids is the set of the elements of the array passed.      *)

\* count that takes a table that is not there for a failure
countOfStored(d, metadata) ==
    IF ~hasTable(d, metadata.tableName) THEN Err("table not found")
    ELSE Ok(Num(Len(d[metadata.tableName].items)))

count(d, metadata) ==
    IF ~hasTable(d, metadata.tableName) THEN Ok(Num(0))
    ELSE Ok(Num(Len(d[metadata.tableName].items)))

countByProperty(d, property, value, metadata) ==
    IF ~hasTable(d, metadata.tableName) THEN Ok(Num(0))
    ELSE Ok(Num(Len(SelectSeq(tableItems(d, metadata.tableName),
                              LAMBDA item : has(item.value, property)
                                            /\ StrictEq(value, item.value[property])))))

existsByProperty(d, property, value, metadata) ==
    IF ~hasTable(d, metadata.tableName) THEN Ok(Bool(FALSE))
    ELSE Ok(Bool(\E i \in 1..Len(d[metadata.tableName].items) :
                    propertyIs(tableItems(d, metadata.tableName)[i], property, value)))

findAll(d, reg, metadata) ==
    IF ~hasTable(d, metadata.tableName) THEN Ok(List(<<>>))
    ELSE populateRelationsToList(d, reg,
            prepareItemList(tableItems(d, metadata.tableName), metadata), metadata)

findAllById(d, reg, ids, metadata) ==
    populateRelationsToList(d, reg,
        prepareItemList(
            filterItems(d, idIsOneOf(ids),
                        metadata.tableName),
            metadata),
        metadata)

findAllByProperty(d, reg, property, value, metadata) ==
    populateRelationsToList(d, reg,
        prepareItemList(
            filterItems(d, propertyEquals(property, value),
                        metadata.tableName),
            metadata),
        metadata)

findById(d, reg, id, metadata) ==
    LET item == findItem(d, idIs(id), metadata.tableName)
    IN IF item = <<>> THEN Ok(Undefined)
       ELSE populateRelations(d, reg, prepareItem(item[1], metadata), metadata)

findByProperty(d, reg, property, value, metadata) ==
    LET item == findItem(d, propertyEquals(property, value), metadata.tableName)
    IN IF item = <<>> THEN Ok(Undefined)
       ELSE populateRelations(d, reg, prepareItem(item[1], metadata), metadata)

-----------------------------------------------------------------------------
(* MemoryPersister: the delete operations, each the _data after the call   *)

deleteAll(d, metadata) ==
    IF ~hasTable(d, metadata.tableName) THEN d
    ELSE deleteTable(d, metadata.tableName)

\* a deleteAllById that drops the table
deleteAllByIdDropsTable(d, ids, metadata) == deleteAll(d, metadata)

deleteAllById(d, ids, metadata) ==
    IF ~hasTable(d, metadata.tableName) THEN d
    ELSE setTable(d, metadata.tableName,
            [items |-> SelectSeq(d[metadata.tableName].items,
                                 LAMBDA item : ~(\E id \in ids : StrictEq(id, item.id)))])

deleteAllByProperty(d, property, value, metadata) ==
    IF ~hasTable(d, metadata.tableName) THEN d
    ELSE setTable(d, metadata.tableName,
            [items |-> SelectSeq(d[metadata.tableName].items,
                                 LAMBDA item : IF has(item.value, property)
                                               THEN ~StrictEq(item.value[property], value)
                                               ELSE TRUE)])

deleteById(d, id, metadata) == deleteAllById(d, {id}, metadata)

-----------------------------------------------------------------------------
(* MemoryPersister.insert *)

\* an includes that finds nothing
includesNothing(allIds, id) == FALSE

\* allIds.includes(id)
includes(allIds, id) == \E k \in 1..Len(allIds) : StrictEq(allIds[k], id)

\* formatId of a counter that stays at its first value
formatIdOnce(idType, newId) == IF idType = "STRING" THEN TemplateString(1) ELSE Num(1)

\* the id the counter value newId becomes under the id type of the persister
formatId(idType, newId) == IF idType = "STRING" THEN TemplateString(newId) ELSE Num(newId)

\* checkId without the test allIds.includes(id)
checkIdUnseen(allIds, id) ==
    IF ~Truthy(id) THEN "Entity cannot be saved with id" ELSE ""

\* the checks of insert on the id of an item: the error raised, "" when none
checkId(allIds, id) ==
    IF ~Truthy(id) THEN "Entity cannot be saved with id"
    ELSE IF includes(allIds, id) THEN "Entity already stored with id"
    ELSE ""

RECURSIVE mapNewItems(_, _, _, _)
\* map(list, item => MemoryItem) of insert, from the state st of the loop on:
\* st.seq is ID_SEQUENCER, st.allIds the ids seen, st.items the items made,
\* st.err the error raised ("" while none)
mapNewItems(list, idPropertyName, idType, st) ==
    IF st.err # "" \/ Len(st.items) = Len(list) THEN st
    ELSE LET given == list[Len(st.items) + 1]
             needsId == ~(has(given, idPropertyName) /\ Truthy(given[idPropertyName]))
             newId == st.seq + 1
             item == IF needsId
                     THEN [given EXCEPT ![idPropertyName] = formatId(idType, newId)]
                     ELSE given
             seq == IF needsId THEN newId ELSE st.seq
             taken == IF needsId THEN st.taken \cup {item[idPropertyName]} ELSE st.taken
             id == item[idPropertyName]
         IN IF checkId(st.allIds, id) # ""
            THEN [st EXCEPT !.seq = seq, !.taken = taken, !.err = checkId(st.allIds, id)]
            ELSE mapNewItems(list, idPropertyName, idType,
                    [seq |-> seq, taken |-> taken, allIds |-> Append(st.allIds, id),
                     items |-> Append(st.items, createMemoryItem(id, item)), err |-> ""])

\* the list of the entities passed, not cloned
cloneListShared(entityList) == entityList

\* map(isArray(entity) ? entity : [entity], item => item.clone())
cloneList(entityList) == Array([i \in 1..Len(entityList) |-> Clone(entityList[i])])

\* new items put in front of the stored ones
pushItemsInFront(d, tableName, newItems) ==
    setTable(d, tableName, [items |-> newItems \o d[tableName].items])

\* forEach(newItems, item => this._data[tableName].items.push(item))
pushItems(d, tableName, newItems) ==
    setTable(d, tableName, [items |-> d[tableName].items \o newItems])

\* insert(entity, metadata) by a persister of id type idType, with ID_SEQUENCER = seq:
\* the _data and the counter after the call, the ids taken from the counter, the outcome
insert(d, reg, idType, seq, entityList, metadata) ==
    LET list == cloneList(entityList)
        tableName == metadata.tableName
        d1 == IF ~hasTable(d, tableName) THEN setTable(d, tableName, createMemoryTable) ELSE d
        allIds == Array([i \in 1..Len(d1[tableName].items) |-> d1[tableName].items[i].id])
        st == mapNewItems(list, metadata.idPropertyName, idType,
                          [seq |-> seq, taken |-> {}, allIds |-> allIds, items |-> <<>>,
                           err |-> ""])
        d2 == pushItems(d1, tableName, st.items)
        firstItem == tableItems(d2, tableName)[Len(d1[tableName].items) + 1]
    IN IF st.err # ""
       THEN [d |-> d1, seq |-> st.seq, taken |-> st.taken, res |-> Err(st.err)]
       ELSE IF Len(st.items) = 0
       THEN [d |-> d2, seq |-> st.seq, taken |-> st.taken, res |-> Err("Could not add items")]
       ELSE [d |-> d2, seq |-> st.seq, taken |-> st.taken,
             res |-> populateRelations(d2, reg, prepareItem(firstItem, metadata), metadata)]

-----------------------------------------------------------------------------
(* MemoryPersister.update *)

\* an update that leaves the stored value of a known id as it is
keepValue(d, tableName, i, entity) == d

\* savedItem.value = entity, for the item at index i
replaceValue(d, tableName, i, entity) ==
    setTable(d, tableName, [items |-> [d[tableName].items EXCEPT ![i].value = entity]])

\* update(entity, metadata): the _data after the call and the outcome
update(d, reg, given, metadata) ==
    LET entity == Clone(given)
        tableName == metadata.tableName
        d1 == IF ~hasTable(d, tableName) THEN setTable(d, tableName, createMemoryTable) ELSE d
        idPropertyName == metadata.idPropertyName
        id == entity[idPropertyName]
        hits == {i \in 1..Len(d1[tableName].items) : StrictEq(d1[tableName].items[i].id, id)}
        savedItem == IF hits = {} THEN 0 ELSE CHOOSE i \in hits : \A j \in hits : i <= j
        d2 == IF savedItem # 0 THEN replaceValue(d1, tableName, savedItem, entity)
              ELSE pushItems(d1, tableName, <<createMemoryItem(id, entity)>>)
        index == IF savedItem # 0 THEN savedItem ELSE Len(d2[tableName].items)
    IN IF ~(idPropertyName # "" /\ has(entity, idPropertyName))
       THEN [d |-> d1, res |-> Err("The entity did not have a property for id")]
       ELSE IF ~Truthy(id)
       THEN [d |-> d1, res |-> Err("The entity did not have a valid entity id")]
       ELSE [d |-> d2,
             res |-> populateRelations(d2, reg, tableItems(d2, tableName)[index].value,
                                       metadata)]


-----------------------------------------------------------------------------
(* What a caller holds after a call.  The objects it passed and the        *)
(* objects it got back are resolved against the _data the call left: an    *)
(* object that is also a stored object gets the identity At(...) of its    *)
(* place in the store, every other object the identity Own.                *)

RECURSIVE objectsOf(_, _)
RECURSIVE objectsOfValue(_, _)

\* <<path, identity>> of every object of entity e
objectsOf(e, path) ==
    {<<path, e.self>>} \cup UNION {objectsOfValue(e[s], path \o <<s>>) : s \in Props}

objectsOfValue(v, path) ==
    IF v[1] = "obj" THEN objectsOf(v[2], path)
    ELSE IF v[1] = "list"
         THEN UNION {objectsOf(v[2][k], path \o <<ToString(k)>>) : k \in DOMAIN v[2]}
         ELSE {}

\* the places of d that hold the object of identity tag
storedAs(d, tag) ==
    UNION {UNION {{At(t, i, o[1]) :
                      o \in {x \in objectsOf(d[t].items[i].value, <<>>) : x[2] = tag}}
                  : i \in 1..Len(d[t].items)}
           : t \in DOMAIN d}

resolveTag(tag, d) ==
    IF tag[1] = "at" THEN tag
    ELSE IF tag[1] = "arg" /\ storedAs(d, tag) # {} THEN CHOOSE a \in storedAs(d, tag) : TRUE
    ELSE Own

RECURSIVE resolve(_, _)
RECURSIVE resolveValue(_, _)

\* entity e as the caller holds it after a call that left d
resolve(e, d) ==
    [id |-> resolveValue(e.id, d), name |-> resolveValue(e.name, d),
     parent |-> resolveValue(e.parent, d), children |-> resolveValue(e.children, d),
     self |-> resolveTag(e.self, d)]

resolveValue(v, d) ==
    IF v[1] = "obj" THEN Obj(resolve(v[2], d))
    ELSE IF v[1] = "list" THEN List(Array([k \in DOMAIN v[2] |-> resolve(v[2][k], d)]))
    ELSE v

\* the outcome r of a call as the caller holds it
resolveResult(r, d) == IF IsOk(r) THEN Ok(resolveValue(r[2], d)) ELSE r

\* the _data at rest: identities forgotten
atRest(d) ==
    Array([t \in DOMAIN d |->
            [items |-> Array([i \in 1..Len(d[t].items) |->
                            createMemoryItem(d[t].items[i].id, Strip(d[t].items[i].value))])]])

\* the arguments of a call, each with the identity of an argument object
asArguments(entityList) ==
    Array([i \in 1..Len(entityList) |-> Retag(entityList[i], <<"arg", "", i>>, <<>>)])

-----------------------------------------------------------------------------
(* The callers *)

\* a table of plain entities on one persister with string ids
CrudScope ==
    [setups |-> {<<"ps", ParentPlainMeta>>},
     readers |-> {<<"ps", ParentPlainMeta>>},
     deleters |-> {<<"ps", ParentPlainMeta>>},
     writers |-> {<<"ps", ParentPlainMeta>>},
     ids |-> {Absent, EmptyString, Str("1")},
     names |-> {Str("a"), Str("b")},
     parents |-> {Absent},
     batchIds |-> {Absent, Str("1")},
     batchNames |-> {Str("a")},
     batchParents |-> {Absent},
     qids |-> {Str("1"), Str("2")},
     qidsets |-> {{Str("1")}, {Str("1"), Str("2")}},
     qprops |-> {"name"},
     qvalues |-> {Str("a")}]

\* callers of two persisters and two tables that leave the ids to insert
IdsScope ==
    [setups |-> {<<"ps", ParentPlainMeta>>},
     readers |-> {<<"ps", ParentPlainMeta>>},
     deleters |-> {<<"ps", ParentPlainMeta>>},
     writers |-> {<<"ps", ParentPlainMeta>>, <<"ps", ChildPlainMeta>>,
                  <<"pn", ParentPlainMeta>>},
     ids |-> {Absent},
     names |-> {Str("a")},
     parents |-> {Absent},
     batchIds |-> {Absent},
     batchNames |-> {Str("a")},
     batchParents |-> {Absent},
     qids |-> {Str("1")},
     qidsets |-> {{Str("1")}},
     qprops |-> {"name"},
     qvalues |-> {Str("a")}]

\* callers of related tables that go on to change the objects they hold
AliasScope ==
    [setups |-> {<<"ps", ParentMeta>>, <<"ps", ChildMeta>>},
     readers |-> {<<"ps", ChildMeta>>},
     deleters |-> {<<"ps", ChildMeta>>},
     writers |-> {<<"ps", ParentMeta>>, <<"ps", ChildMeta>>},
     ids |-> {Str("1")},
     names |-> {Str("a")},
     parents |-> {Placeholder(Str("1"))},
     batchIds |-> {Absent},
     batchNames |-> {Str("a")},
     batchParents |-> {Placeholder(Str("1"))},
     qids |-> {Str("1")},
     qidsets |-> {{Str("1")}},
     qprops |-> {"name"},
     qvalues |-> {Str("a")}]

\* callers of related tables, with the child declared with or without its join field
RelScope ==
    [setups |-> {<<"ps", ParentMeta>>, <<"ps", ChildMeta>>, <<"ps", ChildMetaNoJoin>>},
     readers |-> {<<"ps", ParentMeta>>, <<"ps", ChildMeta>>, <<"ps", ChildMetaNoJoin>>},
     deleters |-> {<<"ps", ParentMeta>>},
     writers |-> {<<"ps", ParentMeta>>, <<"ps", ChildMeta>>, <<"ps", ChildMetaNoJoin>>},
     ids |-> {Absent},
     names |-> {Str("a")},
     parents |-> {Placeholder(Str("1"))},
     batchIds |-> {Absent},
     batchNames |-> {Str("a")},
     batchParents |-> {Placeholder(Str("1"))},
     qids |-> {Str("1"), Str("2")},
     qidsets |-> {{Str("1"), Str("2")}},
     qprops |-> {"name"},
     qvalues |-> {Str("a")}]

\* callers of one table that choose the ids, so that an id can be stored again after it
\* was deleted
OrderScope ==
    [setups |-> {<<"ps", ParentPlainMeta>>},
     readers |-> {<<"ps", ParentPlainMeta>>},
     deleters |-> {<<"ps", ParentPlainMeta>>},
     writers |-> {<<"ps", ParentPlainMeta>>},
     ids |-> {Str("1"), Str("2"), Str("3")},
     names |-> {Str("a"), Str("b")},
     parents |-> {Absent},
     batchIds |-> {Str("1"), Str("2")},
     batchNames |-> {Str("a")},
     batchParents |-> {Absent},
     qids |-> {Str("1"), Str("2")},
     qidsets |-> {{Str("1"), Str("3")}, {Str("2"), Str("3")}},
     qprops |-> {"name"},
     qvalues |-> {Str("a")}]

\* callers of one table that call insert without awaiting the call before
RaceScope ==
    [setups |-> {<<"ps", ParentPlainMeta>>},
     readers |-> {<<"ps", ParentPlainMeta>>},
     deleters |-> {<<"ps", ParentPlainMeta>>},
     writers |-> {<<"ps", ParentPlainMeta>>},
     ids |-> {Str("1")},
     names |-> {Str("a"), Str("b")},
     parents |-> {Absent},
     batchIds |-> {Str("1")},
     batchNames |-> {Str("a")},
     batchParents |-> {Absent},
     qids |-> {Str("1")},
     qidsets |-> {{Str("1")}},
     qprops |-> {"name"},
     qvalues |-> {Str("a")}]

\* callers that fill two tables, with and without names, and delete from one of them
DeleteScope ==
    [setups |-> {<<"ps", ParentPlainMeta>>},
     readers |-> {<<"ps", ParentPlainMeta>>},
     deleters |-> {<<"ps", ParentPlainMeta>>},
     writers |-> {<<"ps", ParentPlainMeta>>, <<"ps", ChildPlainMeta>>},
     ids |-> {Absent},
     names |-> {Absent, Str("a")},
     parents |-> {Absent},
     batchIds |-> {Absent},
     batchNames |-> {Str("b")},
     batchParents |-> {Absent},
     qids |-> {Str("1"), Str("2"), Num(1)},
     qidsets |-> {{Str("1"), Str("2")}},
     qprops |-> {"name"},
     qvalues |-> {Str("a")}]

\* callers of related tables whose metadata is cyclic: Parent and Child refer to each
\* other, or Child refers to its own table
CycleScope ==
    [setups |-> {<<"ps", ParentMeta>>, <<"ps", ChildMeta>>, <<"ps", ChildSelfMeta>>},
     readers |-> {<<"ps", ChildMeta>>, <<"ps", ChildSelfMeta>>},
     deleters |-> {<<"ps", ParentMeta>>},
     writers |-> {<<"ps", ParentMeta>>, <<"ps", ChildMeta>>, <<"ps", ChildSelfMeta>>},
     ids |-> {Absent},
     names |-> {Str("a")},
     parents |-> {Placeholder(Str("1"))},
     batchIds |-> {Absent},
     batchNames |-> {Str("a")},
     batchParents |-> {Placeholder(Str("1"))},
     qids |-> {Str("1"), Str("2")},
     qidsets |-> {{Str("1"), Str("2")}},
     qprops |-> {"name"},
     qvalues |-> {Str("a")}]

\* what the callers of the behaviour use
Scope == CASE scope = "crud" -> CrudScope
           [] scope = "ids" -> IdsScope
           [] scope = "alias" -> AliasScope
           [] scope = "rel" -> RelScope
           [] scope = "order" -> OrderScope
           [] scope = "race" -> RaceScope
           [] scope = "delete" -> DeleteScope
           [] scope = "cycle" -> CycleScope

\* the rows at which the callers stop adding to a table
RowBound == IF scope = "order" THEN MaxOrderRows ELSE MaxRows

Persisters == {"ps", "pn"}

\* the callers that may leave a call unawaited
Callers == {"c1", "c2"}

\* the idType passed to the constructor of each persister
idTypeOf(p) == IF p = "ps" THEN "STRING" ELSE "NUMBER"

\* the entities a caller builds for the table of metadata m
ArgEntities(m) ==
    {MkEntity(id, name, parent) :
        id \in Scope.ids, name \in Scope.names,
        parent \in IF m.tableName = "children" THEN Scope.parents ELSE {Absent}}

\* the entities a caller puts in a batch of two or more
BatchEntities(m) ==
    {MkEntity(id, name, parent) :
        id \in Scope.batchIds, name \in Scope.batchNames,
        parent \in IF m.tableName = "children" THEN Scope.batchParents ELSE {Absent}}

\* the arguments a caller passes to insert: an entity or a list of entities
InsertArguments(m) ==
    {<<>>} \cup {<<e>> : e \in ArgEntities(m)}
           \cup UNION {[1..n -> BatchEntities(m)] : n \in 2..MaxBatch}

\* the item sequence of table t in d, empty when there is no such table
ItemsOf(d, t) == IF hasTable(d, t) THEN d[t].items ELSE <<>>

\* the ids of the items of table t in d
IdsOf(d, t) == {ItemsOf(d, t)[k].id : k \in 1..Len(ItemsOf(d, t))}

\* the metadata slot of a call that takes none
NoMeta ==
    [tableName |-> "", idPropertyName |-> "", fields |-> <<>>,
     oneToManyRelations |-> <<>>, manyToOneRelations |-> <<>>]

NoCall == [op |-> "none", p |-> "", m |-> NoMeta, args |-> <<>>, res |-> Ok(Void), touched |-> {}]

Call(op, p, m, args, res) ==
    [op |-> op, p |-> p, m |-> m, args |-> args, res |-> res, touched |-> {}]


-----------------------------------------------------------------------------
(* Actions of the persister: one per public method, and the caller's       *)
(* mutation of an object it holds.                                         *)

Unchanged_qb == UNCHANGED qvars

SetupEntityMetadata(p, m) ==
    /\ registered' = [registered EXCEPT ![p] = setupMetadata(@, m)]
    /\ last' = Call("setupEntityMetadata", p, m, <<>>, Ok(Void))
    /\ UNCHANGED <<ID_SEQUENCER, data, scope, assigned, inflight>>
    /\ Unchanged_qb
    /\ UNCHANGED populating

\* a call that reads and, like insert and update, creates the table when it is missing
ReadCreatingTable(op, p, m, args, res) ==
    /\ last' = Call(op, p, m, args, resolveResult(res, data[p]))
    /\ data' = [data EXCEPT ![p] = IF hasTable(@, m.tableName) THEN @
                                   ELSE setTable(@, m.tableName, createMemoryTable)]
    /\ UNCHANGED <<ID_SEQUENCER, registered, scope, assigned, inflight>>
    /\ Unchanged_qb
    /\ UNCHANGED populating

\* a call that reads: the outcome is recorded, nothing else is assigned
Read(op, p, m, args, res) ==
    /\ last' = Call(op, p, m, args, resolveResult(res, data[p]))
    /\ UNCHANGED <<ID_SEQUENCER, data, registered, scope, assigned, inflight>>
    /\ Unchanged_qb
    /\ UNCHANGED populating

Count(p, m) == Read("count", p, m, <<>>, count(data[p], m))

CountByProperty(p, m, property, value) ==
    Read("countByProperty", p, m, <<property, value>>,
         countByProperty(data[p], property, value, m))

ExistsByProperty(p, m, property, value) ==
    Read("existsByProperty", p, m, <<property, value>>,
         existsByProperty(data[p], property, value, m))

FindAll(p, m) == Read("findAll", p, m, <<>>, findAll(data[p], registered[p], m))

FindAllById(p, m, ids) ==
    Read("findAllById", p, m, <<ids>>, findAllById(data[p], registered[p], ids, m))

FindAllByProperty(p, m, property, value) ==
    Read("findAllByProperty", p, m, <<property, value>>,
         findAllByProperty(data[p], registered[p], property, value, m))

FindById(p, m, id) ==
    Read("findById", p, m, <<id>>, findById(data[p], registered[p], id, m))

FindByProperty(p, m, property, value) ==
    Read("findByProperty", p, m, <<property, value>>,
         findByProperty(data[p], registered[p], property, value, m))

\* a delete call: d is the _data it leaves
Delete(op, p, m, args, d) ==
    /\ data' = [data EXCEPT ![p] = d]
    /\ last' = Call(op, p, m, args, Ok(Void))
    /\ UNCHANGED <<ID_SEQUENCER, registered, scope, assigned, inflight>>
    /\ Unchanged_qb
    /\ UNCHANGED populating

DeleteAll(p, m) == Delete("deleteAll", p, m, <<>>, deleteAll(data[p], m))

DeleteAllById(p, m, ids) ==
    Delete("deleteAllById", p, m, <<ids>>, deleteAllById(data[p], ids, m))

DeleteAllByProperty(p, m, property, value) ==
    Delete("deleteAllByProperty", p, m, <<property, value>>,
           deleteAllByProperty(data[p], property, value, m))

DeleteById(p, m, id) == Delete("deleteById", p, m, <<id>>, deleteById(data[p], id, m))

\* the body of insert: it has no await, so it runs from its first line to its return
\* in one step, whoever called it
InsertCall(p, m, entityList) ==
    LET arguments == asArguments(entityList)
        r == insert(data[p], registered[p], idTypeOf(p), ID_SEQUENCER, arguments, m)
    IN /\ r.seq <= MaxSeq
       /\ Len(r.d[m.tableName].items) <= RowBound
       /\ ID_SEQUENCER' = r.seq
       /\ assigned' = assigned \cup r.taken
       /\ data' = [data EXCEPT ![p] = atRest(r.d)]
       /\ last' = Call("insert", p, m,
                       Array([i \in 1..Len(arguments) |-> resolve(arguments[i], r.d)]),
                       resolveResult(r.res, r.d))
       /\ UNCHANGED <<registered, scope>>
       /\ Unchanged_qb
       /\ UNCHANGED populating

\* await insert(...): the caller goes on with the outcome
Insert(p, m, entityList) ==
    /\ InsertCall(p, m, entityList)
    /\ UNCHANGED inflight

\* insert(...) without await: caller c keeps the promise and goes on
InsertUnawaited(c, p, m, entityList) ==
    /\ inflight[c] = NoCall
    /\ InsertCall(p, m, entityList)
    /\ inflight' = [inflight EXCEPT ![c] = last']

\* caller c awaits the promise it kept
Await(c) ==
    /\ inflight[c] # NoCall
    /\ inflight' = [inflight EXCEPT ![c] = NoCall]
    /\ UNCHANGED <<ID_SEQUENCER, data, registered, scope, assigned, last>>
    /\ Unchanged_qb
    /\ UNCHANGED populating

Update(p, m, entity) ==
    LET r == update(data[p], registered[p], asArguments(<<entity>>)[1], m)
    IN /\ Len(r.d[m.tableName].items) <= RowBound
       /\ data' = [data EXCEPT ![p] = atRest(r.d)]
       /\ last' = Call("update", p, m, <<resolve(asArguments(<<entity>>)[1], r.d)>>,
                       resolveResult(r.res, r.d))
       /\ UNCHANGED <<ID_SEQUENCER, registered, scope, assigned, inflight>>
       /\ Unchanged_qb
       /\ UNCHANGED populating

\* the value a caller writes into an object it holds
Scribble == Str("scribble")

RECURSIVE setIn(_, _, _, _)
\* entity e with property prop of its object at path set to v
setIn(e, path, prop, v) ==
    IF path = <<>> THEN [e EXCEPT ![prop] = v]
    ELSE LET s == Head(path)
         IN IF e[s][1] = "obj"
            THEN [e EXCEPT ![s] = Obj(setIn(e[s][2], Tail(path), prop, v))]
            ELSE LET k == CHOOSE j \in DOMAIN e[s][2] : ToString(j) = path[2]
                 IN [e EXCEPT ![s] =
                        List([e[s][2] EXCEPT ![k] = setIn(@, Tail(Tail(path)), prop, v)])]

\* the entities a caller holds after the last call: <<kind, index>> -> entity
Held ==
    LET ofArgs == IF last.op \in {"insert", "update"}
                  THEN {<<"arg", i>> : i \in 1..Len(last.args)} ELSE {}
        ofRes == IF IsErr(last.res) THEN {}
                 ELSE IF last.res[2][1] = "obj" THEN {<<"res", 0>>}
                 ELSE IF last.res[2][1] = "list"
                 THEN {<<"res", i>> : i \in 1..Len(last.res[2][2])}
                 ELSE {}
    IN ofArgs \cup ofRes

heldEntity(h) ==
    IF h[1] = "arg" THEN last.args[h[2]]
    ELSE IF h[2] = 0 THEN last.res[2][2] ELSE last.res[2][2][h[2]]

\* the caller sets a property of an object it holds: the object at path of the
\* held entity h.  A stored object that is the same object changes with it.
Mutate(h, path, tag) ==
    LET e == setIn(heldEntity(h), path, "name", Scribble)
        p == last.p
    IN /\ <<h, path>> \notin last.touched
       /\ Cardinality(last.touched) < MaxTouch
       /\ last' = [last EXCEPT
                     !.touched = @ \cup {<<h, path>>},
                     !.args = IF h[1] = "arg" THEN [@ EXCEPT ![h[2]] = e] ELSE @,
                     !.res = IF h[1] = "arg" THEN @
                             ELSE IF h[2] = 0 THEN Ok(Obj(e))
                             ELSE Ok(List([@[2][2] EXCEPT ![h[2]] = e]))]
       /\ data' = IF tag[1] = "at"
                  THEN [data EXCEPT ![p][tag[2]].items[tag[3]].value =
                            setIn(@, tag[4], "name", Scribble)]
                  ELSE data
       /\ UNCHANGED <<ID_SEQUENCER, registered, scope, assigned, inflight>>
       /\ Unchanged_qb
       /\ UNCHANGED populating

-----------------------------------------------------------------------------
(* The behaviours of the persisters *)

PersisterNext ==
    \/ \E c \in Scope.setups : SetupEntityMetadata(c[1], c[2])
    \/ \E c \in Scope.readers :
        \/ Count(c[1], c[2])
        \/ \E property \in Scope.qprops, value \in Scope.qvalues :
            \/ CountByProperty(c[1], c[2], property, value)
            \/ ExistsByProperty(c[1], c[2], property, value)
            \/ FindAllByProperty(c[1], c[2], property, value)
            \/ FindByProperty(c[1], c[2], property, value)
        \/ FindAll(c[1], c[2])
        \/ \E id \in Scope.qids : FindById(c[1], c[2], id)
        \/ \E ids \in Scope.qidsets : FindAllById(c[1], c[2], ids)
    \/ \E c \in Scope.deleters :
        \/ \E property \in Scope.qprops, value \in Scope.qvalues :
            DeleteAllByProperty(c[1], c[2], property, value)
        \/ DeleteAll(c[1], c[2])
        \/ \E id \in Scope.qids : DeleteById(c[1], c[2], id)
        \/ \E ids \in Scope.qidsets : DeleteAllById(c[1], c[2], ids)
    \/ \E c \in Scope.writers :
        \/ \E entityList \in InsertArguments(c[2]) : Insert(c[1], c[2], entityList)
        \/ \E entity \in ArgEntities(c[2]) : Update(c[1], c[2], entity)

\* the caller changes an object it holds
CallerNext == \E h \in Held : \E o \in objectsOf(heldEntity(h), <<>>) : Mutate(h, o[1], o[2])

\* no population is being followed
NotPopulating == [p |-> "", metadata |-> NoMeta, stack |-> <<>>, calls |-> 0, res |-> Ok(Void)]

\* a find operation, insert or update of persister p comes to
\* this._populateRelations(entity, metadata) for the entity of row k of the table
BeginPopulate(p, m, k) ==
    LET entity == prepareItem(tableItems(data[p], m.tableName)[k], m)
    IN /\ populating.stack = <<>>
       /\ populating' = [p |-> p, metadata |-> m,
                         stack |-> <<PopulateCall("populateRelations", entity, m)>>,
                         calls |-> 0,
                         res |-> resolveResult(populateRelations(data[p], registered[p],
                                                                 entity, m), data[p])]
       /\ UNCHANGED <<ID_SEQUENCER, data, registered, scope, assigned, last, inflight>>
       /\ Unchanged_qb

\* the next call of a population helper begins; the calls it makes come before the
\* calls that were waiting, which are never made when it raises
PopulateStep ==
    LET c == Head(populating.stack)
        d == data[populating.p]
        reg == registered[populating.p]
    IN /\ populating.stack # <<>>
       /\ populating.calls < MaxPopulateCalls
       /\ populating' = [populating EXCEPT
                           !.calls = @ + 1,
                           !.stack = callsOf(d, reg, c)
                                     \o (IF IsErr(outcomeOf(d, reg, c)) THEN <<>>
                                         ELSE Tail(populating.stack))]
       /\ UNCHANGED <<ID_SEQUENCER, data, registered, scope, assigned, last, inflight>>
       /\ Unchanged_qb

PersisterInit(sc) ==
    /\ ID_SEQUENCER = 0
    /\ data = [p \in Persisters |-> <<>>]
    /\ registered = [p \in Persisters |-> <<>>]
    /\ scope = sc
    /\ assigned = {}
    /\ last = NoCall
    /\ inflight = [c \in Callers |-> NoCall]
    /\ populating = NotPopulating

QbIdle == qb = <<>> /\ subs = <<>> /\ qlast = <<>>

Init == PersisterInit("crud") /\ QbIdle

Next == PersisterNext

Spec == Init /\ [][Next]_vars

InitIds == PersisterInit("ids") /\ QbIdle

SpecIds == InitIds /\ [][Next]_vars

InitRel == PersisterInit("rel") /\ QbIdle

SpecRel == InitRel /\ [][Next]_vars

InitAlias == PersisterInit("alias") /\ QbIdle

NextAlias == PersisterNext \/ CallerNext

SpecAlias == InitAlias /\ [][NextAlias]_vars

InitOrder == PersisterInit("order") /\ QbIdle

SpecOrder == InitOrder /\ [][Next]_vars

InitCycle == PersisterInit("cycle") /\ QbIdle

SpecCycle == InitCycle /\ [][Next]_vars

\* callers of tables whose relations form cycles; the population of an entity is
\* followed call by call, and it runs to its end before the next operation begins
NextPopulate ==
    \/ /\ populating.stack = <<>>
       /\ \/ \E c \in Scope.setups : SetupEntityMetadata(c[1], c[2])
          \/ \E c \in Scope.writers :
                \E entityList \in InsertArguments(c[2]) : Insert(c[1], c[2], entityList)
    \/ \E c \in Scope.readers :
          \E k \in 1..Len(ItemsOf(data[c[1]], c[2].tableName)) : BeginPopulate(c[1], c[2], k)
    \/ PopulateStep

SpecPopulate == InitCycle /\ [][NextPopulate]_vars

InitDelete == PersisterInit("delete") /\ QbIdle

SpecDelete == InitDelete /\ [][Next]_vars

\* calls that are not awaited, among calls that are
UnawaitedNext ==
    \/ \E caller \in Callers, c \in Scope.writers :
          \E entityList \in InsertArguments(c[2]) :
             InsertUnawaited(caller, c[1], c[2], entityList)
    \/ \E caller \in Callers : Await(caller)

InitRace == PersisterInit("race") /\ QbIdle

NextRace == PersisterNext \/ UnawaitedNext

SpecRace == InitRace /\ [][NextRace]_vars


-----------------------------------------------------------------------------
(* PgSelectQueryBuilder.  SQL text is a sequence of tokens; a keyword, a   *)
(* quoted identifier, a raw expression and a placeholder are each one      *)
(* token, white space is left out.                                         *)

\* the bounds of the callers of the builder
MaxFields == 2

MaxJoins == 2

MaxConds == 1

\* the conditions of a builder whose callers go on adding to it after they passed it on
MaxSubConds == 2

Kw(word) == <<"kw", word>>

Sym(s) == <<"sym", s>>

Raw(text) == <<"raw", text>>

Param == <<"param", "?">>

\* PgQueryUtils.quoteTableName(tableName)
quoteTableName(tableName) == <<"table", tableName>>

\* PgQueryUtils.quoteColumnName(columnName)
quoteColumnName(columnName) == <<"column", columnName>>

\* PgQueryUtils.quoteTableAndColumn(tableName, columnName)
quoteTableAndColumn(tableName, columnName) == <<"tableColumn", tableName, columnName>>

\* a value factory () => any: the k-th one that builder owner made
Factory(owner, k) == <<"factory", owner, k>>

\* f(): the value a factory yields
Evaluate(f) == <<"value", f[2], f[3]>>

\* map(list, f => f()) over value factories
evaluateAll(factories) == Array([i \in 1..Len(factories) |-> Evaluate(factories[i])])

\* a builder held through the QueryBuilder interface: the value factories of its
\* conditions, one placeholder each
createPredicate == [conds |-> <<>>]

RECURSIVE join(_, _)
\* list.join(separator) of texts; the separator is a token sequence
join(list, separator) ==
    IF Len(list) = 0 THEN <<>>
    ELSE IF Len(list) = 1 THEN list[1]
    ELSE list[1] \o separator \o join(Tail(list), separator)

\* QueryBuilder.buildQueryString() of a predicate builder: empty without conditions
predicateQueryString(b) ==
    join(Array([i \in 1..Len(b.conds) |-> <<Raw("condition"), Param>>]), <<Kw("AND")>>)

\* QueryBuilder.buildQueryValues() of a predicate builder
predicateQueryValues(b) == evaluateAll(b.conds)

\* QueryBuilder.getQueryValueFactories() of a predicate builder
predicateValueFactories(b) == b.conds

\* the state a new PgSelectQueryBuilder has
createSelectQueryBuilder ==
    [mainIdColumnName |-> Undefined, mainTableName |-> Undefined, tablePrefix |-> "",
     fieldQueries |-> <<>>, fieldValues |-> <<>>,
     leftJoinQueries |-> <<>>, leftJoinValues |-> <<>>, where |-> ""]

\* the text factories pushed by the include and join methods
AllColumnsQuery(tableName) == <<"allColumns", tableName>>

BuilderQuery(builder, asColumnName) == <<"builder", builder, asColumnName>>

FormulaQuery(formula, asColumnName) == <<"formula", formula, asColumnName>>

LeftJoinQuery(fromTableName, fromColumnName, sourceTableName, sourceColumnName) ==
    <<"leftJoin", fromTableName, fromColumnName, sourceTableName, sourceColumnName>>

\* f() for a text factory, with the builders sb as they are when it is called
callQuery(f, sb) ==
    CASE f[1] = "allColumns" -> Ok(<<quoteTableName(f[2]), Sym(".*")>>)
      [] f[1] = "builder" ->
            IF predicateQueryString(sb[f[2]]) = <<>>
            THEN Err("Query builder failed to create query string")
            ELSE Ok(predicateQueryString(sb[f[2]]) \o <<Kw("AS"), quoteColumnName(f[3])>>)
      [] f[1] = "formula" -> Ok(<<Raw(f[2]), Kw("AS"), quoteColumnName(f[3])>>)
      [] f[1] = "leftJoin" ->
            Ok(<<Kw("LEFT JOIN"), quoteTableName(f[2]), Kw("ON"),
                 quoteTableAndColumn(f[4], f[5]), Sym("="), quoteTableAndColumn(f[2], f[3])>>)

\* the first error that map(list, f => f()) raises, "" when none
firstError(list, sb) ==
    LET bad == {i \in 1..Len(list) : IsErr(callQuery(list[i], sb))}
    IN IF bad = {} THEN ""
       ELSE callQuery(list[CHOOSE i \in bad : \A j \in bad : i <= j], sb)[2]

\* map(list, f => f()) where no call raises
callAll(list, sb) == Array([i \in 1..Len(list) |-> callQuery(list[i], sb)[2]])

\* getCompleteTableName(tableName)
getCompleteTableName(q, tableName) == Ok(Str(q.tablePrefix \o tableName))

\* getCompleteFromTable()
getCompleteFromTable(q) ==
    IF ~Truthy(q.mainTableName) THEN Err("From table has not been initialized yet")
    ELSE getCompleteTableName(q, q.mainTableName[2])

\* getShortFromTable() without the test of the from-table
getShortFromTableUnchecked(q) == Ok(q.mainTableName)

\* getShortFromTable()
getShortFromTable(q) ==
    IF ~Truthy(q.mainTableName) THEN Err("From table has not been initialized yet")
    ELSE Ok(q.mainTableName)

\* getGroupByColumn()
getGroupByColumn(q) ==
    IF ~Truthy(q.mainIdColumnName) THEN Err("Group by has not been initialized yet")
    ELSE Ok(q.mainIdColumnName)

\* includeAllColumnsFromTable(tableName)
includeAllColumnsFromTable(q, tableName) ==
    [q EXCEPT !.fieldQueries = Append(@, AllColumnsQuery(tableName))]

\* includeColumnFromQueryBuilder(builder, asColumnName): the factories the builder has
\* at this time are pushed one by one
includeColumnFromQueryBuilder(q, sb, builder, asColumnName) ==
    [q EXCEPT !.fieldQueries = Append(@, BuilderQuery(builder, asColumnName)),
              !.fieldValues = @ \o predicateValueFactories(sb[builder])]

\* includeFormulaByString(formula, asColumnName): the builder after the call and the
\* outcome
includeFormulaByString(q, formula, asColumnName) ==
    IF formula = "" THEN [q |-> q, res |-> Err("includeFormulaByString: formula is required")]
    ELSE IF asColumnName = ""
    THEN [q |-> q, res |-> Err("includeFormulaByString: column name is required")]
    ELSE [q |-> [q EXCEPT !.fieldQueries = Append(@, FormulaQuery(formula, asColumnName))],
          res |-> Ok(Void)]

\* leftJoinTable(fromTableName, fromColumnName, sourceTableName, sourceColumnName)
leftJoinTable(q, fromTableName, fromColumnName, sourceTableName, sourceColumnName) ==
    [q EXCEPT !.leftJoinQueries =
        Append(@, LeftJoinQuery(fromTableName, fromColumnName,
                                sourceTableName, sourceColumnName))]

\* buildQueryString()
buildQueryString(q, sb) ==
    LET query1 == <<Kw("SELECT")>> \o join(callAll(q.fieldQueries, sb), <<Sym(",")>>)
        query2 == IF Truthy(q.mainTableName)
                  THEN query1 \o <<Kw("FROM"), quoteTableName(q.mainTableName[2])>>
                  ELSE query1
        query3 == IF Len(q.leftJoinQueries) # 0
                  THEN query2 \o join(callAll(q.leftJoinQueries, sb), <<>>)
                  ELSE query2
        query4 == IF q.where # ""
                  THEN query3 \o <<Kw("WHERE")>> \o predicateQueryString(sb[q.where])
                  ELSE query3
    IN IF firstError(q.fieldQueries, sb) # "" THEN Err(firstError(q.fieldQueries, sb))
       ELSE IF Truthy(q.mainIdColumnName)
       THEN IF ~Truthy(q.mainTableName) THEN Err("No table initialized")
            ELSE Ok(query4 \o <<Kw("GROUP BY"),
                                quoteTableAndColumn(q.mainTableName[2],
                                                    q.mainIdColumnName[2])>>)
       ELSE Ok(query4)

\* buildQueryValues with the values of the predicate put first
buildQueryValuesPredicateFirst(q, sb) ==
    (IF q.where # "" THEN predicateQueryValues(sb[q.where]) ELSE <<>>)
    \o evaluateAll(q.fieldValues) \o evaluateAll(q.leftJoinValues)

\* buildQueryValues()
buildQueryValues(q, sb) ==
    evaluateAll(q.fieldValues) \o evaluateAll(q.leftJoinValues)
    \o (IF q.where # "" THEN predicateQueryValues(sb[q.where]) ELSE <<>>)

\* getQueryValueFactories without the factories of the predicate
getQueryValueFactoriesOfFields(q, sb) == q.fieldValues \o q.leftJoinValues

\* getQueryValueFactories()
getQueryValueFactories(q, sb) ==
    q.fieldValues \o q.leftJoinValues
    \o (IF q.where # "" THEN predicateValueFactories(sb[q.where]) ELSE <<>>)

\* build(): the pair of the text and the values, or the error of the text
build(q, sb) ==
    IF IsErr(buildQueryString(q, sb)) THEN buildQueryString(q, sb)
    ELSE Ok(<<buildQueryString(q, sb)[2], buildQueryValues(q, sb)>>)

-----------------------------------------------------------------------------
(* The callers of a PgSelectQueryBuilder and of the builders it is given *)

\* the builders a caller passes through the QueryBuilder interface
BuilderNames == {"b1", "b2"}

\* those it passes as the predicate
PredicateNames == {"b2"}

TableNames == {"t"}

JoinedTables == {"a", "b"}

ColumnNames == {"id"}

Formulas == {"", "f"}

Aliases == {"", "c"}

Prefixes == {"p_"}

\* what the caller saw of its last call
QCall(op, res) == [op |-> op, res |-> res]

Unchanged_persisters == UNCHANGED pvars

\* a call that changes the select builder
QbWrite(op, q, res) ==
    /\ qb' = q
    /\ qlast' = QCall(op, res)
    /\ UNCHANGED subs
    /\ Unchanged_persisters

\* a call that only reads the select builder
QbRead(op, res) ==
    /\ qlast' = QCall(op, res)
    /\ UNCHANGED <<qb, subs>>
    /\ Unchanged_persisters

SetTablePrefix(prefix) ==
    QbWrite("setTablePrefix", [qb EXCEPT !.tablePrefix = prefix], Ok(Void))

GetTablePrefix == QbRead("getTablePrefix", Ok(Str(qb.tablePrefix)))

GetCompleteTableName(tableName) ==
    QbRead("getCompleteTableName", getCompleteTableName(qb, tableName))

SetWhereFromQueryBuilder(builder) ==
    QbWrite("setWhereFromQueryBuilder", [qb EXCEPT !.where = builder], Ok(Void))

IncludeAllColumnsFromTable(tableName) ==
    /\ Len(qb.fieldQueries) < MaxFields
    /\ QbWrite("includeAllColumnsFromTable", includeAllColumnsFromTable(qb, tableName),
               Ok(Void))

IncludeColumnFromQueryBuilder(builder, asColumnName) ==
    /\ Len(qb.fieldQueries) < MaxFields
    /\ QbWrite("includeColumnFromQueryBuilder",
               includeColumnFromQueryBuilder(qb, subs, builder, asColumnName), Ok(Void))

IncludeFormulaByString(formula, asColumnName) ==
    /\ Len(qb.fieldQueries) < MaxFields
    /\ QbWrite("includeFormulaByString",
               includeFormulaByString(qb, formula, asColumnName).q,
               includeFormulaByString(qb, formula, asColumnName).res)

SetFromTable(tableName) ==
    QbWrite("setFromTable", [qb EXCEPT !.mainTableName = Str(tableName)], Ok(Void))

GetCompleteFromTable == QbRead("getCompleteFromTable", getCompleteFromTable(qb))

GetShortFromTable == QbRead("getShortFromTable", getShortFromTable(qb))

SetGroupByColumn(columnName) ==
    QbWrite("setGroupByColumn", [qb EXCEPT !.mainIdColumnName = Str(columnName)], Ok(Void))

GetGroupByColumn == QbRead("getGroupByColumn", getGroupByColumn(qb))

LeftJoinTable(fromTableName, fromColumnName, sourceTableName, sourceColumnName) ==
    /\ Len(qb.leftJoinQueries) < MaxJoins
    /\ \A k \in 1..Len(qb.leftJoinQueries) : qb.leftJoinQueries[k][2] # fromTableName
    /\ QbWrite("leftJoinTable",
               leftJoinTable(qb, fromTableName, fromColumnName,
                             sourceTableName, sourceColumnName),
               Ok(Void))

Build == QbRead("build", build(qb, subs))

BuildQueryString == QbRead("buildQueryString", buildQueryString(qb, subs))

BuildQueryValues == QbRead("buildQueryValues", Ok(buildQueryValues(qb, subs)))

GetQueryValueFactories ==
    QbRead("getQueryValueFactories", Ok(getQueryValueFactories(qb, subs)))

\* the caller adds a condition, with its value, to a builder it holds
AddCondition(builder) ==
    /\ Len(subs[builder].conds) < (IF scope = "sub" THEN MaxSubConds ELSE MaxConds)
    /\ subs' = [subs EXCEPT ![builder].conds = Append(@, Factory(builder, Len(@) + 1))]
    /\ qlast' = QCall("addCondition", Ok(Void))
    /\ UNCHANGED qb
    /\ Unchanged_persisters

QbNext ==
    \/ \E prefix \in Prefixes : SetTablePrefix(prefix)
    \/ GetTablePrefix
    \/ \E tableName \in TableNames : GetCompleteTableName(tableName)
    \/ \E builder \in PredicateNames : SetWhereFromQueryBuilder(builder)
    \/ \E tableName \in TableNames : IncludeAllColumnsFromTable(tableName)
    \/ \E builder \in BuilderNames, asColumnName \in Aliases \ {""} :
          IncludeColumnFromQueryBuilder(builder, asColumnName)
    \/ \E formula \in Formulas, asColumnName \in Aliases :
          IncludeFormulaByString(formula, asColumnName)
    \/ \E tableName \in TableNames : SetFromTable(tableName)
    \/ GetCompleteFromTable
    \/ GetShortFromTable
    \/ \E columnName \in ColumnNames : SetGroupByColumn(columnName)
    \/ GetGroupByColumn
    \/ \E fromTableName \in JoinedTables, columnName \in ColumnNames,
          sourceTableName \in TableNames :
          LeftJoinTable(fromTableName, columnName, sourceTableName, columnName)
    \/ Build
    \/ BuildQueryString
    \/ BuildQueryValues
    \/ GetQueryValueFactories
    \/ \E builder \in BuilderNames : AddCondition(builder)

\* the persisters are left alone
PersistersIdle == PersisterInit("qb")

QbInit ==
    /\ qb = createSelectQueryBuilder
    /\ subs = [builder \in BuilderNames |-> createPredicate]
    /\ qlast = QCall("constructor", Ok(Void))
    /\ PersistersIdle

SpecQb == QbInit /\ [][QbNext]_vars

\* callers that pass on builders which have a condition already and go on using them,
\* and that may give an empty name to a setter
SubInit ==
    /\ qb = createSelectQueryBuilder
    /\ subs = [builder \in BuilderNames |-> [conds |-> <<Factory(builder, 1)>>]]
    /\ qlast = QCall("constructor", Ok(Void))
    /\ PersisterInit("sub")

SubNext ==
    \/ \E builder \in PredicateNames : SetWhereFromQueryBuilder(builder)
    \/ \E tableName \in TableNames : IncludeAllColumnsFromTable(tableName)
    \/ \E builder \in BuilderNames, asColumnName \in Aliases \ {""} :
          IncludeColumnFromQueryBuilder(builder, asColumnName)
    \/ \E tableName \in TableNames \cup {""} : SetFromTable(tableName)
    \/ GetCompleteFromTable
    \/ GetShortFromTable
    \/ \E columnName \in ColumnNames \cup {""} : SetGroupByColumn(columnName)
    \/ GetGroupByColumn
    \/ Build
    \/ BuildQueryString
    \/ BuildQueryValues
    \/ GetQueryValueFactories
    \/ \E builder \in BuilderNames : AddCondition(builder)

SpecSub == SubInit /\ [][SubNext]_vars

-----------------------------------------------------------------------------
(* Steps and properties *)

\* the step is a call of op (and not the caller changing an object it holds)
IsCall(op) == last'.op = op /\ last'.touched = {}

\* the id entity i of the list has once insert has given ids to those that lack one
IdAfterAssignment(entityList, i, idPropertyName, idType, seq) ==
    IF Truthy(entityList[i][idPropertyName]) THEN entityList[i][idPropertyName]
    ELSE formatId(idType,
                  seq + Cardinality({j \in 1..i : ~Truthy(entityList[j][idPropertyName])}))

\* entity i of the list has the id of a stored item of the table or of an earlier entity
IsDuplicate(entityList, i, idPropertyName, idType, seq, stored) ==
    LET id == IdAfterAssignment(entityList, i, idPropertyName, idType, seq)
    IN \/ id \in stored
       \/ \E j \in 1..(i - 1) :
            IdAfterAssignment(entityList, j, idPropertyName, idType, seq) = id

\* C1: an insert whose batch holds, after id assignment, the id of a stored item of
\* the table or of an earlier entity of the batch raises an error and leaves the item
\* sequence of the table as it was
C1_DuplicateRejectsBatch ==
    [][(/\ IsCall("insert")
        /\ \E i \in 1..Len(last'.args) :
              IsDuplicate(last'.args, i, last'.m.idPropertyName, idTypeOf(last'.p),
                          ID_SEQUENCER, IdsOf(data[last'.p], last'.m.tableName)))
       => /\ IsErr(last'.res)
          /\ ItemsOf(data'[last'.p], last'.m.tableName)
               = ItemsOf(data[last'.p], last'.m.tableName)]_vars

\* C1 witness: a batch of two was rejected for its second entity, which carries the id
\* of a stored item, while the first entity was acceptable
C1_Witness ==
    /\ last.op = "insert"
    /\ last.res = Err("Entity already stored with id")
    /\ Len(last.args) = 2
    /\ last.args[1].id = Absent
    /\ last.args[2].id \in IdsOf(data[last.p], last.m.tableName)
    /\ formatId(idTypeOf(last.p), ID_SEQUENCER) \notin IdsOf(data[last.p], last.m.tableName)


\* C2: the copy insert returns for an entity that had no id carries a non-empty id that
\* no earlier insert of the process was given, whatever the table and the persister;
\* every id the call takes from ID_SEQUENCER is new, and the counter only grows
C2_FreshIds ==
    [][IsCall("insert")
       => /\ ID_SEQUENCER' >= ID_SEQUENCER
          /\ (assigned' \ assigned) \cap assigned = {}
          /\ Cardinality(assigned' \ assigned) = ID_SEQUENCER' - ID_SEQUENCER
          /\ (IsOk(last'.res) /\ ~Truthy(last'.args[1][last'.m.idPropertyName]))
             => LET id == last'.res[2][2][last'.m.idPropertyName]
                IN /\ Truthy(id)
                   /\ id \notin assigned
                   /\ id \in assigned']_vars

\* C2 witness: an insert by a second persister returned a copy with a counter id after
\* inserts into two tables of the first persister had been given ids
C2_Witness ==
    /\ last.op = "insert"
    /\ last.p = "pn"
    /\ IsOk(last.res)
    /\ last.args[1].id = Absent
    /\ last.res[2][2].id = Num(3)
    /\ Str("1") \in IdsOf(data["ps"], "children")
    /\ Str("2") \in IdsOf(data["ps"], "parents")


\* C3 (parts): what update leaves in the table for an entity with a usable id
UpdateUpserts(e, before, after) ==
    LET id == e.id
        hits == {k \in 1..Len(before) : before[k].id = id}
    IN IF hits = {}
       THEN /\ Len(after) = Len(before) + 1
            /\ SubSeq(after, 1, Len(before)) = before
            /\ after[Len(after)] = createMemoryItem(id, Strip(e))
       ELSE LET k == CHOOSE h \in hits : \A g \in hits : h <= g
            IN /\ Len(after) = Len(before)
               /\ after = [before EXCEPT ![k] = createMemoryItem(id, Strip(e))]

\* C3: update of an entity with a non-empty id adds exactly one item holding the entity
\* when no stored item of the table has the id, and otherwise keeps the row count and
\* replaces the value of the item that has it; without an id property or with an empty
\* id it raises an error
C3_UpdateIsUpsert ==
    [][IsCall("update")
       => LET e == last'.args[1]
              t == last'.m.tableName
          IN IF has(e, last'.m.idPropertyName) /\ e[last'.m.idPropertyName] # EmptyString
             THEN UpdateUpserts(e, ItemsOf(data[last'.p], t), ItemsOf(data'[last'.p], t))
             ELSE IsErr(last'.res)]_vars

\* C3 witness: the last call updated the first of two rows, whose value is now the
\* entity passed; the row count stayed at two and the second row is another entity
C3_Witness ==
    /\ last.op = "update"
    /\ IsOk(last.res)
    /\ Len(ItemsOf(data[last.p], last.m.tableName)) = 2
    /\ ItemsOf(data[last.p], last.m.tableName)[1].id = last.args[1].id
    /\ ItemsOf(data[last.p], last.m.tableName)[1].value.name = Str("b")
    /\ ItemsOf(data[last.p], last.m.tableName)[2].id # last.args[1].id

\* the step is an update or a delete that can reach id in table t of persister p
TouchesId(p, t, id) ==
    /\ last'.p = p
    /\ last'.m.tableName = t
    /\ \/ IsCall("update") /\ last'.args[1].id = id
       \/ IsCall("deleteById") /\ last'.args[1] = id
       \/ IsCall("deleteAllById") /\ id \in last'.args[1]
       \/ IsCall("deleteAllByProperty")
       \/ IsCall("deleteAll")

\* what findById yields, identities of the copies aside
Found(d, reg, id, m) ==
    LET r == findById(d, reg, id, m)
    IN IF IsOk(r) /\ r[2][1] = "obj" THEN Ok(Obj(Strip(r[2][2]))) ELSE r

\* C4: for metadata without relations, right after insert findById with the id of the
\* returned copy yields an entity equal to the inserted one in every property and with
\* that id, and what findById yields for an id stays the same over every later step
\* that is neither an update nor a delete of that id
C4_RoundTrip ==
    [][/\ (IsCall("insert") /\ IsOk(last'.res) /\ ~HasRelations(last'.m))
          => /\ last'.res[2][2].id =
                   IdAfterAssignment(last'.args, 1, "id", idTypeOf(last'.p), ID_SEQUENCER)
             /\ \A i \in 1..Len(last'.args) :
                   LET id == IdAfterAssignment(last'.args, i, "id", idTypeOf(last'.p),
                                               ID_SEQUENCER)
                   IN Found(data'[last'.p], registered'[last'.p], id, last'.m)
                        = Ok(Obj([Strip(last'.args[i]) EXCEPT !.id = id]))
       /\ \A c \in Scope.writers :
             \A id \in IdsOf(data[c[1]], c[2].tableName) :
                (/\ ~HasRelations(c[2])
                 /\ Found(data'[c[1]], registered'[c[1]], id, c[2])
                      # Found(data[c[1]], registered[c[1]], id, c[2]))
                => TouchesId(c[1], c[2].tableName, id)]_vars

\* C4 witness: findById has just returned, with its name, the entity that an insert
\* stored under the second counter id
C4_Witness ==
    /\ last.op = "findById"
    /\ last.args[1] = Str("2")
    /\ IsOk(last.res)
    /\ last.res[2][1] = "obj"
    /\ last.res[2][2].id = Str("2")
    /\ last.res[2][2].name = Str("a")
    /\ ~HasRelations(last.m)
    /\ ID_SEQUENCER = 2

\* the step is a call of a read operation
IsRead ==
    \E op \in {"count", "countByProperty", "existsByProperty", "findAll", "findAllById",
               "findAllByProperty", "findById", "findByProperty"} : IsCall(op)

\* the step is a call of a delete operation
IsDelete ==
    \E op \in {"deleteAll", "deleteAllById", "deleteAllByProperty", "deleteById"} :
        IsCall(op)

\* what each read operation yields when there is nothing to find
NothingOf(op) ==
    CASE op \in {"count", "countByProperty"} -> Ok(Num(0))
      [] op = "existsByProperty" -> Ok(Bool(FALSE))
      [] op \in {"findAll", "findAllById", "findAllByProperty"} -> Ok(List(<<>>))
      [] op \in {"findById", "findByProperty"} -> Ok(Undefined)

\* C9: on a table that is not there (never written, or removed by deleteAll) the counts
\* yield 0, existsByProperty yields false, the findAll operations an empty sequence,
\* findById and findByProperty undefined, and the four deletes complete; none of them
\* changes the _data, the registered metadata or the counter
C9_AbsenceIsNotAnError ==
    [][((IsRead \/ IsDelete) /\ ~hasTable(data[last'.p], last'.m.tableName))
       => /\ IsRead => last'.res = NothingOf(last'.op)
          /\ IsDelete => last'.res = Ok(Void)
          /\ UNCHANGED <<ID_SEQUENCER, data, registered>>]_vars

\* C9 witness: findById yielded undefined on a table that deleteAll removed after
\* rows had been written to it
C9_Witness ==
    /\ last.op = "findById"
    /\ last.res = Ok(Undefined)
    /\ ~hasTable(data[last.p], last.m.tableName)
    /\ ID_SEQUENCER > 0


\* the step is the caller changing an object it holds
IsMutate == last'.touched # last.touched /\ last'.touched # {}

\* C5: when a caller changes an entity it passed to insert or update, or an entity or
\* nested related entity that insert, update or a find operation returned, the stored
\* state stays as it is, and so does what findById yields for every id and table
C5_NoAliasing ==
    [][IsMutate
       => /\ data' = data
          /\ \A c \in Scope.readers \cup Scope.writers : \A id \in Scope.qids :
                findById(data'[c[1]], registered'[c[1]], id, c[2])
                  = findById(data[c[1]], registered[c[1]], id, c[2])]_vars

\* C5 witness: the caller has changed the related parent nested in the child that
\* findById returned, and the stored parent still has the name it was stored with
C5_Witness ==
    /\ last.op = "findById"
    /\ <<<<"res", 0>>, <<"parent">>>> \in last.touched
    /\ last.res[2][2].parent[2].name = Scribble
    /\ \E k \in 1..Len(ItemsOf(data[last.p], "parents")) :
          /\ ItemsOf(data[last.p], "parents")[k].id = last.res[2][2].parent[2].id
          /\ ItemsOf(data[last.p], "parents")[k].value.name = Str("a")


\* the entities an outcome holds
Returned(res) ==
    IF IsErr(res) THEN {}
    ELSE IF res[2][1] = "obj" THEN {res[2][2]}
    ELSE IF res[2][1] = "list" THEN {res[2][2][k] : k \in DOMAIN res[2][2]}
    ELSE {}

\* the stored items of the mapped table of relation rel whose mappedBy object has id
LinkedItems(d, rel, id) ==
    SelectSeq(ItemsOf(d, rel.mappedTable),
              LAMBDA item : /\ item.value[rel.mappedBy][1] = "obj"
                            /\ item.value[rel.mappedBy][2].id = id)

\* the last step was a call, and the caller has not changed what it holds since
AfterCall == last.op # "none" /\ last.touched = {}

\* C6: every entity an operation returns under metadata that declares a one-to-many
\* relation has at the property of the relation the sequence, in the order of the
\* mapped table, of copies of exactly the stored items whose mappedBy object carries
\* the id of the entity: an empty sequence when there are none, never a missing property
C6_OneToManyPopulated ==
    AfterCall =>
        \A P \in Returned(last.res) :
            \A k \in 1..Len(last.m.oneToManyRelations) :
                LET rel == last.m.oneToManyRelations[k]
                    linked == LinkedItems(data[last.p], rel, P.id)
                IN Strip(P)[rel.propertyName]
                     = List(Array([i \in 1..Len(linked) |-> linked[i].value]))

\* the tables the relations of metadata m point to
RelationTargets(m) ==
    {m.oneToManyRelations[k].mappedTable : k \in 1..Len(m.oneToManyRelations)}
    \cup {m.manyToOneRelations[k].mappedTable : k \in 1..Len(m.manyToOneRelations)}

\* the tables population under metadata m looks up: those the relations of m point to
\* and those the one-to-many relations of a registered many-to-one target point to
LookedUpTargets(reg, m) ==
    RelationTargets(m)
    \cup UNION {LET t == m.manyToOneRelations[k].mappedTable
                IN IF isRegistered(reg, t)
                   THEN {getMetadataByTable(reg, t).oneToManyRelations[j].mappedTable :
                            j \in 1..Len(getMetadataByTable(reg, t).oneToManyRelations)}
                   ELSE {}
                : k \in 1..Len(m.manyToOneRelations)}

\* the first stored item of table t of d with the id, as a sequence of at most one
StoredById(d, t, id) == SelectSeq(ItemsOf(d, t), LAMBDA item : item.id = id)

\* C7 (part): findById has resolved relation rel of the stored child C, or has raised
\* an error when there is nothing to resolve it to
ManyToOneResolved(d, C, rel, res) ==
    LET ph == C[rel.propertyName]
        related == IF ph[1] = "obj" /\ Truthy(ph[2].id)
                   THEN StoredById(d, rel.mappedTable, ph[2].id) ELSE <<>>
    IN IF related = <<>> THEN IsErr(res)
       ELSE /\ IsOk(res)
            /\ res[2][1] = "obj"
            /\ res[2][2].id = C.id
            /\ res[2][2][rel.propertyName][1] = "obj"
            /\ res[2][2][rel.propertyName][2].id = related[1].value.id
            /\ res[2][2][rel.propertyName][2].name = related[1].value.name

\* C7: with the metadata of the tables in play registered, findById of a stored entity
\* under metadata that declares a many-to-one relation returns the entity with the
\* property of the relation replaced by a copy of the stored item of the mapped table
\* that has the id of the placeholder, and raises an error when no such item is stored
\* or the placeholder or its id is absent
C7_ManyToOneResolved ==
    (/\ AfterCall
     /\ last.op = "findById"
     /\ \A t \in LookedUpTargets(registered[last.p], last.m) :
           isRegistered(registered[last.p], t))
    => LET stored == StoredById(data[last.p], last.m.tableName, last.args[1])
       IN stored # <<>>
          => \A k \in 1..Len(last.m.manyToOneRelations) :
                ManyToOneResolved(data[last.p], stored[1].value,
                                  last.m.manyToOneRelations[k], last.res)

\* C8: an operation returns entities under metadata that declares relations only when
\* the metadata of every table the relations point to is registered with the persister
\* at that time, and it raises no metadata error once they all are, in whatever order
\* the metadata was registered
C8_TargetsResolvedAtCall ==
    AfterCall =>
        /\ Returned(last.res) # {}
           => \A t \in RelationTargets(last.m) : isRegistered(registered[last.p], t)
        /\ last.res = Err("Could not find metadata for linked table")
           => \E t \in LookedUpTargets(registered[last.p], last.m) :
                 ~isRegistered(registered[last.p], t)


\* the keywords that open the clauses of a text, in the order they occur in it
ClauseKeywords(text) ==
    SelectSeq(text, LAMBDA token : token \in {Kw("SELECT"), Kw("FROM"), Kw("LEFT JOIN"),
                                              Kw("WHERE")})

\* the quoted tables that follow the LEFT JOIN keywords of a text, in its order
JoinedInText(text) ==
    LET at == SelectSeq(Array([i \in 1..Len(text) |-> i]),
                        LAMBDA i : text[i] = Kw("LEFT JOIN"))
    IN Array([k \in 1..Len(at) |-> text[at[k] + 1]])

\* n times the keyword LEFT JOIN
JoinKeywords(n) == Array([k \in 1..n |-> Kw("LEFT JOIN")])

\* C10: the values build() returns are the values of the field factories, then of the
\* join factories, then of the factories of the predicate, each group in the order the
\* factories were attached, f + j + p in all; the clauses of the text it returns are, left
\* to right, SELECT, FROM when a from-table is set, one LEFT JOIN per join in the order
\* the joins were added, WHERE when a predicate is set, and no clause keyword occurs
\* anywhere else
C10_BuildConcatenates ==
    (qlast.op = "build" /\ IsOk(qlast.res))
    => LET text == qlast.res[2][1]
           values == qlast.res[2][2]
           predicate == IF qb.where = "" THEN <<>> ELSE predicateValueFactories(subs[qb.where])
           f == Len(qb.fieldValues)
           j == Len(qb.leftJoinValues)
           p == Len(predicate)
       IN /\ Len(values) = f + j + p
          /\ \A i \in 1..Len(values) :
                values[i] = Evaluate(IF i <= f THEN qb.fieldValues[i]
                                     ELSE IF i <= f + j THEN qb.leftJoinValues[i - f]
                                     ELSE predicate[i - f - j])
          /\ ClauseKeywords(text)
               = <<Kw("SELECT")>>
                 \o (IF Truthy(qb.mainTableName) THEN <<Kw("FROM")>> ELSE <<>>)
                 \o JoinKeywords(Len(qb.leftJoinQueries))
                 \o (IF qb.where = "" THEN <<>> ELSE <<Kw("WHERE")>>)
          /\ JoinedInText(text)
               = Array([k \in 1..Len(qb.leftJoinQueries) |->
                          quoteTableName(qb.leftJoinQueries[k][2])])

\* C10 witness: build() has returned for a builder with two field expressions that
\* brought one value factory each, one from-table, one left join and a predicate with
\* one value factory: three values and the clauses SELECT, FROM, LEFT JOIN, WHERE
C10_Witness ==
    /\ qlast.op = "build"
    /\ IsOk(qlast.res)
    /\ Len(qb.fieldValues) = 2
    /\ qb.fieldValues[1] # qb.fieldValues[2]
    /\ Len(qb.leftJoinQueries) = 1
    /\ qb.where # ""
    /\ Len(qlast.res[2][2]) = 3
    /\ ClauseKeywords(qlast.res[2][1])
         = <<Kw("SELECT"), Kw("FROM"), Kw("LEFT JOIN"), Kw("WHERE")>>

\* C11: a call of includeColumnFromQueryBuilder with a builder whose text is empty at
\* that time raises, and the field values of the select builder are what they were
C11_EmptySubBuilderRaises ==
    [][\A builder \in BuilderNames, asColumnName \in Aliases \ {""} :
          (/\ predicateQueryString(subs[builder]) = <<>>
           /\ IncludeColumnFromQueryBuilder(builder, asColumnName))
          => (/\ IsErr(qlast'.res)
              /\ qb'.fieldValues = qb.fieldValues)]_vars

RECURSIVE SubSelectValues(_, _)
\* the values of the builders embedded by the field expressions, each builder's values
\* once per expression that embeds it, in the order of the expressions
SubSelectValues(fieldQueries, sb) ==
    IF Len(fieldQueries) = 0 THEN <<>>
    ELSE (IF fieldQueries[1][1] = "builder"
          THEN predicateQueryValues(sb[fieldQueries[1][2]])
          ELSE <<>>)
         \o SubSelectValues(Tail(fieldQueries), sb)

\* the positions of the placeholders of a text
Placeholders(text) == {i \in 1..Len(text) : text[i] = Param}

\* C12: the values build() returns are as many as the placeholders of the text it
\* returns, and they are, in the order of the text, the values of each embedded
\* builder as it is now, then those of the predicate
C12_ValuesMatchPlaceholders ==
    (qlast.op = "build" /\ IsOk(qlast.res))
    => LET text == qlast.res[2][1]
           values == qlast.res[2][2]
       IN /\ Len(values) = Cardinality(Placeholders(text))
          /\ values = SubSelectValues(qb.fieldQueries, subs)
                      \o (IF qb.where = "" THEN <<>> ELSE predicateQueryValues(subs[qb.where]))

\* the from-table of the builder is a non-empty name
FromTableSet == Truthy(qb.mainTableName)

\* the group-by column of the builder is a non-empty name
GroupBySet == Truthy(qb.mainIdColumnName)

\* C13: getCompleteFromTable() and getShortFromTable() raise exactly when the from-table
\* is not a non-empty name, getGroupByColumn() raises exactly when the group-by column is
\* not a non-empty name, and build() and buildQueryString() raise when the group-by
\* column is set and the from-table is not, and never raise for a missing table otherwise
C13_UninitializedStateErrors ==
    /\ qlast.op \in {"getCompleteFromTable", "getShortFromTable"}
          => (IsErr(qlast.res) <=> ~FromTableSet)
    /\ qlast.op = "getCompleteFromTable" /\ FromTableSet
          => qlast.res = Ok(Str(qb.tablePrefix \o qb.mainTableName[2]))
    /\ qlast.op = "getGroupByColumn"
          => (IsErr(qlast.res) <=> ~GroupBySet)
    /\ qlast.op \in {"build", "buildQueryString"}
          => /\ (GroupBySet /\ ~FromTableSet) => IsErr(qlast.res)
             /\ (FromTableSet \/ ~GroupBySet) => qlast.res # Err("No table initialized")

\* C13 witness: with a group-by column set and the from-table set to the empty name,
\* build() has raised for the missing table
C13_Witness ==
    /\ qlast.op = "build"
    /\ qlast.res = Err("No table initialized")
    /\ qb.mainTableName = EmptyString
    /\ GroupBySet

\* the ids of the items of table t in d, in the order of the items
StoredIds(d, t) == Array([k \in 1..Len(ItemsOf(d, t)) |-> ItemsOf(d, t)[k].id])

\* the ids of the entities of a returned list, in its order
ResultIds(res) == Array([k \in 1..Len(res[2][2]) |-> res[2][2][k].id])

\* the elements of a sequence
Range(q) == {q[k] : k \in 1..Len(q)}

\* the ids of the stored items of table t in d that own property with that value, in the
\* order of the items
IdsWithProperty(d, t, property, value) ==
    LET hits == SelectSeq(ItemsOf(d, t), LAMBDA item : item.value[property] = value)
    IN Array([k \in 1..Len(hits) |-> hits[k].id])

\* C14: the order of the ids of a table changes only by insert, which appends the ids of
\* its batch in batch order, by update of an id that is not stored, which appends it
\* (update of a stored id keeps every position), and by the deletes, which keep the
\* relative order of what remains; findAll returns the entities in that order,
\* findAllById and findAllByProperty the matching ones in that order, and findByProperty
\* the first match in that order
C14_ScanOrderIsInsertionOrder ==
    [][LET p == last'.p
           m == last'.m
           t == m.tableName
           op == last'.op
           before == StoredIds(data[p], t)
           after == StoredIds(data'[p], t)
       IN (op # "none" /\ last'.touched = {}) =>
          /\ (op = "insert" /\ IsOk(last'.res))
                => after = before
                           \o Array([i \in 1..Len(last'.args) |->
                                IdAfterAssignment(last'.args, i, m.idPropertyName,
                                                  idTypeOf(p), ID_SEQUENCER)])
          /\ (op = "update" /\ IsOk(last'.res))
                => after = IF last'.args[1].id \in Range(before) THEN before
                           ELSE Append(before, last'.args[1].id)
          /\ IsDelete
                => after = SelectSeq(before, LAMBDA id : id \in Range(after))
          /\ (IsRead \/ op = "setupEntityMetadata") => after = before
          /\ (op = "findAll" /\ IsOk(last'.res)) => ResultIds(last'.res) = after
          /\ (op = "findAllById" /\ IsOk(last'.res))
                => ResultIds(last'.res) = SelectSeq(after, LAMBDA id : id \in last'.args[1])
          /\ (op = "findAllByProperty" /\ IsOk(last'.res))
                => ResultIds(last'.res)
                     = IdsWithProperty(data'[p], t, last'.args[1], last'.args[2])
          /\ (op = "findByProperty" /\ IsOk(last'.res))
                => LET hits == IdsWithProperty(data'[p], t, last'.args[1], last'.args[2])
                   IN IF hits = <<>> THEN last'.res = Ok(Undefined)
                      ELSE last'.res[2][1] = "obj" /\ last'.res[2][2].id = hits[1]]_vars

\* C14 witness: findAll has returned the three rows of a table in the order 3, 1, 2, in
\* which they are stored
C14_Witness ==
    /\ last.op = "findAll"
    /\ IsOk(last.res)
    /\ ResultIds(last.res) = <<Str("3"), Str("1"), Str("2")>>
    /\ StoredIds(data[last.p], last.m.tableName) = <<Str("3"), Str("1"), Str("2")>>

\* the metadata registered for the mapped table of one-to-many relation rel has no field
\* whose property is the relation's mappedBy
JoinFieldMissing(reg, rel) ==
    /\ isRegistered(reg, rel.mappedTable)
    /\ \A k \in 1..Len(getMetadataByTable(reg, rel.mappedTable).fields) :
          getMetadataByTable(reg, rel.mappedTable).fields[k].propertyName # rel.mappedBy

\* C15: a call under metadata with a one-to-many relation whose mapped table is
\* registered without the join field returns no entity, and insert and update, which
\* always have an entity to return, raise
C15_MissingJoinFieldRaises ==
    (/\ AfterCall
     /\ \E k \in 1..Len(last.m.oneToManyRelations) :
           JoinFieldMissing(registered[last.p], last.m.oneToManyRelations[k]))
    => /\ Returned(last.res) = {}
       /\ last.op \in {"insert", "update"} => IsErr(last.res)

\* metadata m has no field whose property is the property of many-to-one relation rel
OwnFieldMissing(m, rel) ==
    \A k \in 1..Len(m.fields) : m.fields[k].propertyName # rel.propertyName

\* C16: a call under metadata with a many-to-one relation for whose property the
\* metadata has no field returns no entity, and insert and update, which always have an
\* entity to return, raise
C16_MissingOwnFieldRaises ==
    (/\ AfterCall
     /\ \E k \in 1..Len(last.m.manyToOneRelations) :
           OwnFieldMissing(last.m, last.m.manyToOneRelations[k]))
    => /\ Returned(last.res) = {}
       /\ last.op \in {"insert", "update"} => IsErr(last.res)

\* C17: a call of insert or update that raises leaves the items of every table of the
\* persister as they were before the call
C17_ErrorLeavesTablesUnchanged ==
    [][((IsCall("insert") \/ IsCall("update")) /\ IsErr(last'.res))
       => \A t \in Tables :
             ItemsOf(data'[last'.p], t) = ItemsOf(data[last'.p], t)]_vars

\* no table of any persister holds two items with the same id
NoDuplicateIds ==
    \A p \in Persisters, t \in Tables :
        \A i, j \in 1..Len(ItemsOf(data[p], t)) :
            ItemsOf(data[p], t)[i].id = ItemsOf(data[p], t)[j].id => i = j

\* two callers have each an insert call in flight, on the same table of the same
\* persister, for entities with the same id
SameIdInFlight ==
    \E c1, c2 \in Callers :
        /\ c1 # c2
        /\ inflight[c1].op = "insert" /\ inflight[c2].op = "insert"
        /\ inflight[c1].p = inflight[c2].p
        /\ inflight[c1].m.tableName = inflight[c2].m.tableName
        /\ \E i \in 1..Len(inflight[c1].args), j \in 1..Len(inflight[c2].args) :
              /\ Truthy(inflight[c1].args[i].id)
              /\ inflight[c1].args[i].id = inflight[c2].args[j].id

\* C18 as stated: when two insert calls for the same id are in flight together, the
\* table comes to hold two items with the id, or both calls are accepted
C18_ConcurrentInsertsStoreDuplicate ==
    SameIdInFlight
    => \/ ~NoDuplicateIds
       \/ \A c \in Callers : IsOk(inflight[c].res)

\* the step is a caller awaiting a promise it kept
IsAwait == \E c \in Callers : inflight[c] # NoCall /\ inflight'[c] = NoCall

\* C18: whether or not the callers await their calls, an insert call checks the ids of
\* its batch against the ids the table holds when the call is made and appends in the
\* same step: a call whose batch has an id that is stored or occurs twice raises and
\* appends nothing, any other call appends its batch, and no table ever holds two items
\* with the same id
C18_InsertChecksAndAppendsAtOnce ==
    [][/\ NoDuplicateIds'
       /\ (IsCall("insert") /\ ~IsAwait)
             => LET p == last'.p
                    m == last'.m
                    before == StoredIds(data[p], m.tableName)
                    after == StoredIds(data'[p], m.tableName)
                    batch == Array([i \in 1..Len(last'.args) |->
                                IdAfterAssignment(last'.args, i, m.idPropertyName,
                                                  idTypeOf(p), ID_SEQUENCER)])
                    clash == \/ \E i \in 1..Len(batch) : batch[i] \in Range(before)
                             \/ \E i, j \in 1..Len(batch) : i # j /\ batch[i] = batch[j]
                IN IF clash \/ batch = <<>>
                   THEN IsErr(last'.res) /\ after = before
                   ELSE after = before \o batch]_vars

\* C18 witness: two callers have an insert call in flight each, for the same id on the
\* same table; one was accepted, the other raised, and the table holds the id once
C18_Witness ==
    /\ SameIdInFlight
    /\ \E c1, c2 \in Callers :
          /\ IsOk(inflight[c1].res)
          /\ inflight[c2].res = Err("Entity already stored with id")
          /\ inflight[c1].m = inflight[c2].m
          /\ StoredIds(data[inflight[c1].p], inflight[c1].m.tableName) = <<Str("1")>>
    /\ NoDuplicateIds

\* the tokens of a text that follow keyword word
TokensAfter(text, word) ==
    {text[i + 1] : i \in {k \in 1..(Len(text) - 1) : text[k] = Kw(word)}}

\* C19: in the text build() returns for a builder with a non-empty table prefix, the
\* table after FROM is the quoted prefixed name that getCompleteFromTable() returns, and
\* so is the table of the column after GROUP BY
C19_RenderedTablesCarryPrefix ==
    (qlast.op = "build" /\ IsOk(qlast.res) /\ qb.tablePrefix # "")
    => LET text == qlast.res[2][1]
           complete == getCompleteFromTable(qb)[2][2]
       IN /\ Truthy(qb.mainTableName)
             => TokensAfter(text, "FROM") = {quoteTableName(complete)}
          /\ (Truthy(qb.mainTableName) /\ Truthy(qb.mainIdColumnName))
             => TokensAfter(text, "GROUP BY")
                  = {quoteTableAndColumn(complete, qb.mainIdColumnName[2])}

\* the item is one the delete call of the step is to remove
Doomed(item) ==
    CASE last'.op = "deleteAll" -> TRUE
      [] last'.op = "deleteById" -> item.id = last'.args[1]
      [] last'.op = "deleteAllById" -> item.id \in last'.args[1]
      [] last'.op = "deleteAllByProperty" ->
            /\ item.value[last'.args[1]] # Absent
            /\ item.value[last'.args[1]] = last'.args[2]

\* C20: a delete call leaves in its table the items it is not to remove, as they were
\* and in their order, and none of the others; the other tables of the persister, the
\* other persisters and ID_SEQUENCER are as before, and findById of the id of a removed
\* item yields undefined
C20_DeleteRemovesExactlyTheMatches ==
    [][IsDelete
       => LET p == last'.p
              m == last'.m
              before == ItemsOf(data[p], m.tableName)
              after == ItemsOf(data'[p], m.tableName)
          IN /\ after = SelectSeq(before, LAMBDA item : ~Doomed(item))
             /\ \A t \in Tables \ {m.tableName} :
                   ItemsOf(data'[p], t) = ItemsOf(data[p], t)
             /\ \A other \in Persisters \ {p} : data'[other] = data[other]
             /\ ID_SEQUENCER' = ID_SEQUENCER
             /\ \A k \in 1..Len(before) :
                   Doomed(before[k])
                   => findById(data'[p], registered'[p], before[k].id, m) = Ok(Undefined)]_vars

\* C20 witness: after deleteById("1"), of the three ids given out so far the table of the
\* call holds "2" alone, in an item without a name, and the other table still holds "3"
C20_Witness ==
    /\ last.op = "deleteById"
    /\ last.args = <<Str("1")>>
    /\ ID_SEQUENCER = 3
    /\ StoredIds(data[last.p], last.m.tableName) = <<Str("2")>>
    /\ ItemsOf(data[last.p], last.m.tableName)[1].value.name = Absent
    /\ StoredIds(data[last.p], "children") = <<Str("3")>>

\* value v is an entity with the properties of a stored item of table t, and not the bare
\* { id } with which a caller refers to one
ResolvedTo(d, v, t) ==
    /\ v[1] = "obj"
    /\ \E k \in 1..Len(ItemsOf(d, t)) :
          /\ ItemsOf(d, t)[k].id = v[2].id
          /\ ItemsOf(d, t)[k].value.name = v[2].name

\* the related entity R, of the table with metadata m, has its own relations populated
FullyPopulated(d, reg, R, m) ==
    /\ \A j \in 1..Len(m.oneToManyRelations) :
          ~JoinFieldMissing(reg, m.oneToManyRelations[j])
          => R[m.oneToManyRelations[j].propertyName][1] = "list"
    /\ \A j \in 1..Len(m.manyToOneRelations) :
          (/\ ~OwnFieldMissing(m, m.manyToOneRelations[j])
           /\ R[m.manyToOneRelations[j].propertyName] # Absent)
          => ResolvedTo(d, R[m.manyToOneRelations[j].propertyName],
                        m.manyToOneRelations[j].mappedTable)

\* C21: the entity that an operation has put at the property of a many-to-one relation
\* has its own one-to-many and many-to-one relations populated: where the stored related
\* item refers to a row by a placeholder, the returned one holds the row
C21_PopulationRecurses ==
    AfterCall
    => \A P \in Returned(last.res) :
          \A k \in 1..Len(last.m.manyToOneRelations) :
             LET rel == last.m.manyToOneRelations[k]
                 R == P[rel.propertyName]
                 reg == registered[last.p]
             IN (/\ ~OwnFieldMissing(last.m, rel)
                 /\ isRegistered(reg, rel.mappedTable)
                 /\ R[1] = "obj")
                => FullyPopulated(data[last.p], reg, R[2],
                                  getMetadataByTable(reg, rel.mappedTable))

\* what a call of the select builder can change or return: the method called, the
\* builder, the builders it refers to, and the result
rendering == <<qlast.op, qb, subs, qlast.res>>

\* the step is a call of one of the rendering methods
IsRendering ==
    qlast'.op \in {"build", "buildQueryString", "buildQueryValues", "getQueryValueFactories"}

IdPropertyOf(t) ==
    LET named == {c[2].idPropertyName : c \in {w \in Scope.writers : w[2].tableName = t}}
    IN IF Cardinality(named) = 1 THEN CHOOSE n \in named : TRUE ELSE ""

\* every item of every table is filed under the id its entity carries
FiledUnderOwnId ==
    \A p \in Persisters, t \in Tables :
        IdPropertyOf(t) # ""
        => \A k \in 1..Len(ItemsOf(data[p], t)) :
              ItemsOf(data[p], t)[k].id = ItemsOf(data[p], t)[k].value[IdPropertyOf(t)]

\* C23: whatever insert, update and delete calls were made with one metadata record per
\* table, no table holds two items with the same id, every item is filed under the
\* value of the id property of the entity it holds, and a step that is not a delete
\* leaves every stored item at its place with its id
C23_ItemIdsUniqueAndFixed ==
    [][/\ NoDuplicateIds'
       /\ FiledUnderOwnId'
       /\ ~IsDelete
          => \A p \in Persisters, t \in Tables :
                \A k \in 1..Len(ItemsOf(data[p], t)) :
                   /\ k <= Len(ItemsOf(data'[p], t))
                   /\ ItemsOf(data'[p], t)[k].id = ItemsOf(data[p], t)[k].id]_vars

\* C23 witness: a table holds two items, the second under an id of the counter, and
\* the last call, an update, replaced the entity of the second
C23_Witness ==
    /\ last.op = "update"
    /\ IsOk(last.res)
    /\ ID_SEQUENCER > 0
    /\ LET items == ItemsOf(data[last.p], last.m.tableName)
       IN /\ Len(items) = 2
          /\ items[2].id \in assigned
          /\ items[2].id = last.args[1].id
          /\ items[2].value.name = Str("b")

\* the identities of the objects of what a call returned
ObjectsReturned(res) == IF IsOk(res) THEN {o[2] : o \in objectsOfValue(res[2], <<>>)} ELSE {}

\* C24: a call of count, countByProperty, existsByProperty, findAll, findAllById,
\* findAllByProperty, findById or findByProperty, whether it returns or raises, leaves
\* the tables, their items, the entities stored in them and the id counter as they
\* were, and no object of what it returns (the objects population has written into) is
\* an object of the store
C24_ReadsArePure ==
    [][IsRead
       => /\ data' = data
          /\ ID_SEQUENCER' = ID_SEQUENCER
          /\ \A tag \in ObjectsReturned(last'.res) : tag[1] # "at"]_vars

\* C24 witness: a find operation raised a population error on a table that holds items
C24_Witness ==
    /\ last.op \in {"findAll", "findAllById", "findAllByProperty", "findById", "findByProperty"}
    /\ last.touched = {}
    /\ IsErr(last.res)
    /\ Len(ItemsOf(data[last.p], last.m.tableName)) > 0

\* the calls of population helpers one population makes at most: _populateRelations,
\* its two helpers, and one call per many-to-one relation of the metadata
PopulationBound(m) == 3 + Len(m.manyToOneRelations)

\* C25: whatever metadata is registered, cyclic or not, the calls of population helpers
\* begun and waiting in one population never exceed a bound that depends on the
\* metadata alone, a waiting call can always begin, and a population that has made all
\* its calls has a result or an error
C25_PopulationIsBounded ==
    /\ populating.calls + Len(populating.stack) <= PopulationBound(populating.metadata)
    /\ populating.stack # <<>> => populating.calls < MaxPopulateCalls
    /\ (populating.stack = <<>> /\ populating.calls > 0)
          => IsOk(populating.res) \/ IsErr(populating.res)

\* C25 witness: the population of a row that is its own parent, under metadata that
\* relates the table to itself, has made its four calls and returned
C25_Witness ==
    /\ populating.calls = 4
    /\ populating.stack = <<>>
    /\ populating.metadata = ChildSelfMeta
    /\ getMetadataByTable(registered[populating.p], ChildSelfMeta.tableName) = ChildSelfMeta
    /\ IsOk(populating.res)
    /\ populating.res[2][2].parent[1] = "obj"
    /\ populating.res[2][2].parent[2].id = populating.res[2][2].id

\* the last call was an insert of entities none of which had an id
InsertedWithoutIds ==
    /\ last.op = "insert"
    /\ last.touched = {}
    /\ \A i \in 1..Len(last.args) : ~Truthy(last.args[i][last.m.idPropertyName])

\* C26: an insert of entities that lack an id never raises the duplicate-id error,
\* whatever ids the callers chose themselves in earlier insert and update calls
C26_CounterIdsNeverCollide ==
    InsertedWithoutIds => last.res # Err("Entity already stored with id")

====
